---- MODULE Spec2Model ----
(***************************************************************************)
(* Task orchestration of the data-curation tool: the detached runner       *)
(* (task_runner.py, execute_task) driving fetch -> download -> upload over  *)
(* one persisted task record, and the dashboard's canceller                *)
(* (streamlit.py, cancel_task) writing to the same record.                 *)
(***************************************************************************)
EXTENDS Integers, Sequences, FiniteSets, TLC

\* ------------------------------------------------------------------ bounds
\* longest session list the listing returns
MaxSessions == 11
\* faults of the collaborators (store, AI controller, curation platform) per run
MaxFaults == 2
\* cancel_task calls per run
MaxCancels == 1
\* longest list handed to a pure function
MaxItems == 4
\* largest image budget handed to the sampler
MaxBudget == 5
\* params["sample_per_channel"] of the run
SamplePerChannel == 2
\* most pages the session source serves for one combination
MaxPages == 2
\* most full batches of label rows handed to add_labels
MaxLabelBatches == 2

\* longest group handed to the sampler run statement by statement
MaxGroup == 3

\* create_dataset and update_dataset calls of one process
MaxCalls == 3

\* cancellation polls of one runner among several
MaxTaskPolls == 2

\* most combinations of one traversal
MaxCombinations == 4

\* `idx % 10 == 0` of the two stage loops
PollEvery == 10

\* `if ind ==490` of add_labels
FlushAt == 490

\* ------------------------------------------------------------------ values
Terminal == {"completed", "failed", "cancelled"}

\* a column that holds SQL NULL / a Python None
NULL == "NULL"

NoSessionsMsg == "No sessions found matching the criteria"
NoResponsesMsg == "No valid responses downloaded from AI controller"
CancelMsg == "Task cancelled by user"
\* f"{str(e)}\n\n{traceback.format_exc()}"
ExcMsg == "str(e) + traceback.format_exc()"

VARIABLES
    rec,               \* the row of table "tasks" of this task
    now,               \* datetime.now(): a logical clock, one tick per write
    pc,                \* position of execute_task
    all_sessions,      \* inf.all_sessions, the session ids the listing returned
    sampled_sessions,  \* what fetch_and_sample_sessions returned
    idx,               \* loop index of the running stage
    responses,         \* the documents of stage 2, by session id
    failed_count,
    dataset_name,      \* cur.dataset_name
    success_count,
    failed_sessions,
    \* history
    writes,            \* every write to the row, in order
    pollCount,         \* number of is_task_cancelled calls so far
    observed,          \* a poll returned True
    raised,            \* the call whose exception reached execute_task, or "none"
    listings,          \* session-listing traversals issued
    fetchLog,          \* output fetches issued: <<session id, got a document>>
    nameLookups,       \* get_dataset_name calls
    uploadLog,         \* upload requests issued: <<session id, outcome>>
    cancels,           \* cancel_task calls
    storeFaults,       \* store calls that raised
    \* main
    params_file,       \* the parameter file at sys.argv[2]
    \* the pure functions, applied on their own
    fn,                \* the function applied, or "idle"
    arg,               \* its input
    budget,            \* its `count` argument
    result             \* what it returned

orchVars == <<pc, all_sessions, sampled_sessions, idx, responses, failed_count,
              dataset_name, success_count, failed_sessions>>
histVars == <<observed, raised, listings, fetchLog, nameLookups, uploadLog>>
pureVars == <<fn, arg, budget, result>>
vars == <<rec, now, writes, pollCount, cancels, storeFaults, orchVars, histVars,
          params_file, pureVars>>

\* ------------------------------------------------------------------ store
\* supabase.table("tasks").update(update_data).eq("task_id", task_id):
\* the columns named in update_data are overwritten, the others are kept
SqlUpdate(r, update_data) ==
    [c \in DOMAIN r |-> IF c \in DOMAIN update_data THEN update_data[c] ELSE r[c]]

\* the row inserted at task creation
create_task_in_db ==
    [status |-> "queued", started_at |-> 0, completed_at |-> 0,
     error_message |-> NULL, result_summary |-> <<>>]

\* task_runner.update_task_status with a compare-and-swap on the status
update_task_status_cas(r, ok, status, kwargs) ==
    IF ok /\ r.status \in {"queued", "started"}
    THEN SqlUpdate(r, [status |-> status] @@ kwargs) ELSE r

\* task_runner.update_task_status: an unconditional update; a store error is
\* logged and swallowed (ok = FALSE)
update_task_status(r, ok, status, kwargs) ==
    IF ok THEN SqlUpdate(r, [status |-> status] @@ kwargs) ELSE r

\* is_task_cancelled answering from a flag of the runner's own process, which
\* no other process sets
is_task_cancelled_local(r, ok) == FALSE

\* is_task_cancelled stopping the run when it cannot read the row
is_task_cancelled_failsafe(r, ok) == ~ok \/ r.status = "cancelled"

\* task_runner.is_task_cancelled: a store error reads as "not cancelled"
is_task_cancelled(r, ok) == ok /\ r.status = "cancelled"

\* the update_data streamlit.update_task_status builds
ui_update_data(t, status, error_message, result_summary) ==
    [status |-> status]
    @@ (IF status = "started" THEN [started_at |-> t]
        ELSE IF status \in Terminal THEN [completed_at |-> t]
        ELSE <<>>)
    @@ (IF error_message # NULL THEN [error_message |-> error_message] ELSE <<>>)
    @@ (IF result_summary # <<>> THEN [result_summary |-> result_summary] ELSE <<>>)

\* streamlit.update_task_status
ui_update_task_status(r, ok, t, status, error_message, result_summary) ==
    IF ok THEN SqlUpdate(r, ui_update_data(t, status, error_message, result_summary))
    ELSE r

Count(s, v) == Cardinality({i \in DOMAIN s : s[i][2] = v})

\* faults of the collaborators so far in this run
Faults == storeFaults + failed_count + (Len(uploadLog) - Count(uploadLog, "accepted"))
          + (IF params_file = "remove_failed" THEN 1 ELSE 0)

\* a store call may raise while the fault budget lasts
StoreOutcomes == IF Faults < MaxFaults THEN BOOLEAN ELSE {TRUE}

StoreCall(ok) == storeFaults' = storeFaults + (IF ok THEN 0 ELSE 1)

\* where execute_task stands: before the session listing has returned, from
\* there until the last output fetch has returned, from there until the last
\* upload has returned, or at one of its closing writes / returned
Phase ==
    CASE pc \in {"main", "start", "poll_start", "stage1"} -> "listing"
      [] pc \in {"poll_fetch", "dl_poll", "dl_fetch"} -> "download"
      [] pc \in {"up_init", "up_poll", "up_post"} -> "upload"
      [] OTHER -> "closing"

LogWrite(by, ok, data) ==
    /\ writes' = Append(writes, [by |-> by, phase |-> Phase, polls |-> pollCount,
                                 ok |-> ok, data |-> data,
                                 before |-> rec.status, after |-> rec'.status])
    /\ now' = now + 1

\* a write of the runner
OrchWrite(ok, status, kwargs) ==
    /\ rec' = update_task_status(rec, ok, status, kwargs)
    /\ LogWrite("runner", ok, [status |-> status] @@ kwargs)
    /\ StoreCall(ok)
    /\ UNCHANGED <<pollCount, cancels>>

\* a cancellation poll of the runner, leading to pc value `next` when the
\* poll returns False and to the end of execute_task when it returns True
Poll(ok, next) ==
    /\ pollCount' = pollCount + 1
    /\ StoreCall(ok)
    /\ observed' = (observed \/ is_task_cancelled(rec, ok))
    /\ pc' = IF is_task_cancelled(rec, ok) THEN "done" ELSE next
    /\ UNCHANGED <<rec, now, writes, cancels>>

\* ------------------------------------------------------------------ inputs
\* what the listing returns: n records with the session ids 1..n, or with
\* the last one a second copy of session 1 (the same session returned for two
\* combinations)
SessionList(n, dup) == [i \in 1..n |-> IF dup /\ i = n THEN 1 ELSE i]

SessionLists ==
    {SessionList(n, FALSE) : n \in 0..MaxSessions}
    \cup {SessionList(n, TRUE) : n \in 2..MaxSessions}

\* ------------------------------------------------------------------ Init
\* the runner process launched for a task the dashboard has just created
OrchInit ==
    /\ rec = create_task_in_db
    /\ now = 1
    /\ pc = "main"
    /\ params_file = "present"
    /\ all_sessions = <<>>
    /\ sampled_sessions = <<>>
    /\ idx = 0
    /\ responses = <<>>
    /\ failed_count = 0
    /\ dataset_name = NULL
    /\ success_count = 0
    /\ failed_sessions = <<>>
    /\ writes = <<>>
    /\ pollCount = 0
    /\ observed = FALSE
    /\ raised = "none"
    /\ listings = 0
    /\ fetchLog = <<>>
    /\ nameLookups = 0
    /\ uploadLog = <<>>
    /\ cancels = 0
    /\ storeFaults = 0

PureIdle ==
    /\ fn = "idle"
    /\ arg = <<>>
    /\ budget = 0
    /\ result = <<>>

Init == OrchInit /\ PureIdle

\* ------------------------------------------------------------------ runner
\* main, `with open(params_file) as f: params = json.load(f)`: the bundle is
\* loaded, or the file cannot be opened or parsed and main logs and exits 1
LoadParams ==
    /\ pc = "main"
    /\ \/ pc' = "start"
       \/ pc' = "exit1"
    /\ UNCHANGED <<rec, now, writes, pollCount, cancels, storeFaults,
                   all_sessions, sampled_sessions, idx, responses, failed_count,
                   dataset_name, success_count, failed_sessions, histVars,
                   params_file, pureVars>>

\* what os.remove(params_file) may do
RemoveOutcomes == IF Faults < MaxFaults THEN {"removed", "remove_failed"} ELSE {"removed"}

\* main after execute_task has returned: os.remove(params_file), whose
\* exception is logged as a warning
CleanUp ==
    /\ pc = "done"
    /\ params_file = "present"
    /\ \E out \in RemoveOutcomes : params_file' = out
    /\ UNCHANGED <<rec, now, writes, pollCount, cancels, storeFaults,
                   orchVars, histVars, pureVars>>

\* execute_task, "Mark as started"
MarkStarted ==
    /\ pc = "start"
    /\ UNCHANGED <<params_file, pureVars>>
    /\ \E ok \in StoreOutcomes : OrchWrite(ok, "started", [started_at |-> now])
    /\ pc' = "poll_start"
    /\ UNCHANGED <<all_sessions, sampled_sessions, idx, responses, failed_count,
                   dataset_name, success_count, failed_sessions, histVars>>

\* execute_task, "Check cancellation before starting"
PollBeforeStart ==
    /\ pc = "poll_start"
    /\ UNCHANGED <<params_file, pureVars>>
    /\ \E ok \in StoreOutcomes : Poll(ok, "stage1")
    /\ UNCHANGED <<all_sessions, sampled_sessions, idx, responses, failed_count,
                   dataset_name, success_count, failed_sessions,
                   raised, listings, fetchLog, nameLookups, uploadLog>>

\* execute_task, the call of fetch_and_sample_sessions: an argument
\* `params[...]` of a key the bundle lacks raises before the call; else
\* fetch_and_sample_sessions runs up to inf.all_sessions, where the traversal
\* returns a list, or a transport error of a listing request propagates
FetchSessions ==
    /\ pc = "stage1"
    /\ UNCHANGED <<params_file, pureVars>>
    /\ \/ \E l \in SessionLists :
            /\ listings' = listings + 1
            /\ all_sessions' = l
            /\ pc' = "poll_fetch"
            /\ raised' = raised
       \/ /\ listings' = listings + 1
          /\ pc' = "except"
          /\ raised' = "get_combinations"
          /\ all_sessions' = all_sessions
       \/ /\ listings' = listings
          /\ pc' = "except"
          /\ raised' = "params"
          /\ all_sessions' = all_sessions
    /\ UNCHANGED <<rec, now, writes, pollCount, cancels, storeFaults,
                   sampled_sessions, idx, responses, failed_count, dataset_name,
                   success_count, failed_sessions,
                   observed, fetchLog, nameLookups, uploadLog>>

\* fetch_and_sample_sessions, "Check cancellation", then `return all_data`;
\* execute_task goes on to stage 2 unless the list is empty
PollAfterFetch ==
    /\ pc = "poll_fetch"
    /\ UNCHANGED <<params_file, pureVars>>
    /\ \E ok \in StoreOutcomes :
          /\ Poll(ok, IF Len(all_sessions) = 0 THEN "no_sessions" ELSE "dl_poll")
          /\ sampled_sessions' =
                IF is_task_cancelled(rec, ok) THEN sampled_sessions ELSE all_sessions
    /\ UNCHANGED <<all_sessions, idx, responses, failed_count,
                   dataset_name, success_count, failed_sessions,
                   raised, listings, fetchLog, nameLookups, uploadLog>>

\* execute_task returning on an empty session list as it does on a
\* cancellation: logged, nothing written
FailNoSessionsSilent ==
    /\ pc = "no_sessions"
    /\ UNCHANGED <<params_file, pureVars>>
    /\ pc' = "done"
    /\ UNCHANGED <<rec, now, writes, pollCount, cancels, storeFaults,
                   all_sessions, sampled_sessions, idx, responses, failed_count,
                   dataset_name, success_count, failed_sessions, histVars>>

\* execute_task, `if len(sampled_sessions) == 0`
FailNoSessions ==
    /\ pc = "no_sessions"
    /\ UNCHANGED <<params_file, pureVars>>
    /\ \E ok \in StoreOutcomes :
          OrchWrite(ok, "failed", [completed_at |-> now, error_message |-> NoSessionsMsg])
    /\ pc' = "done"
    /\ UNCHANGED <<all_sessions, sampled_sessions, idx, responses, failed_count,
                   dataset_name, success_count, failed_sessions, histVars>>

\* download_responses whose poll logs the cancellation and goes on
DownloadPollNoReturn ==
    /\ pc = "dl_poll"
    /\ UNCHANGED <<params_file, pureVars>>
    /\ \E ok \in StoreOutcomes :
          /\ pollCount' = pollCount + 1
          /\ StoreCall(ok)
          /\ observed' = (observed \/ is_task_cancelled(rec, ok))
    /\ pc' = "dl_fetch"
    /\ UNCHANGED <<rec, now, writes, cancels,
                   all_sessions, sampled_sessions, idx, responses, failed_count,
                   dataset_name, success_count, failed_sessions,
                   raised, listings, fetchLog, nameLookups, uploadLog>>

\* download_responses, `session_ids = [s["session_id"] for s in
\* sampled_sessions]`: a listed record without that key raises before the loop
DownloadRaise ==
    /\ pc = "dl_poll"
    /\ UNCHANGED <<params_file, pureVars>>
    /\ idx = 0
    /\ pc' = "except"
    /\ raised' = "download_responses"
    /\ UNCHANGED <<rec, now, writes, pollCount, cancels, storeFaults,
                   all_sessions, sampled_sessions, idx, responses, failed_count,
                   dataset_name, success_count, failed_sessions,
                   observed, listings, fetchLog, nameLookups, uploadLog>>

\* download_responses, `if idx % 10 == 0 and is_task_cancelled(task_id)`
DownloadPoll ==
    /\ pc = "dl_poll"
    /\ UNCHANGED <<params_file, pureVars>>
    /\ \E ok \in StoreOutcomes : Poll(ok, "dl_fetch")
    /\ UNCHANGED <<all_sessions, sampled_sessions, idx, responses, failed_count,
                   dataset_name, success_count, failed_sessions,
                   raised, listings, fetchLog, nameLookups, uploadLog>>

\* download_responses polling before its first item only
AfterFetchNoPoll(i, n, nresp) ==
    IF i + 1 < n
    THEN "dl_fetch"
    ELSE (IF nresp = 0 THEN "no_responses" ELSE "up_init")

\* execute_task without its check for an empty response list
AfterFetchUnchecked(i, n, nresp) ==
    IF i + 1 < n
    THEN (IF (i + 1) % PollEvery = 0 THEN "dl_poll" ELSE "dl_fetch")
    ELSE "up_init"

\* where download_responses / execute_task go after item i of n
AfterFetch(i, n, nresp) ==
    IF i + 1 < n
    THEN (IF (i + 1) % PollEvery = 0 THEN "dl_poll" ELSE "dl_fetch")
    ELSE (IF nresp = 0 THEN "no_responses" ELSE "up_init")

\* what fetch_output_from_ai_controller may return for one session
FetchOutcomes == IF Faults < MaxFaults THEN BOOLEAN ELSE {TRUE}

\* download_responses putting each new document in front of the others
DownloadFetchPrepend ==
    /\ pc = "dl_fetch"
    /\ UNCHANGED <<params_file, pureVars>>
    /\ \E got \in FetchOutcomes :
          /\ fetchLog' = Append(fetchLog, <<sampled_sessions[idx + 1], got>>)
          /\ responses' = IF got THEN <<sampled_sessions[idx + 1]>> \o responses
                          ELSE responses
          /\ failed_count' = IF got THEN failed_count ELSE failed_count + 1
          /\ pc' = AfterFetch(idx, Len(sampled_sessions), Len(responses'))
    /\ idx' = IF idx + 1 < Len(sampled_sessions) THEN idx + 1 ELSE 0
    /\ UNCHANGED <<rec, now, writes, pollCount, cancels, storeFaults,
                   all_sessions, sampled_sessions, dataset_name, success_count,
                   failed_sessions, observed, raised, listings, nameLookups, uploadLog>>

\* download_responses leaving its loop at the first session without a
\* document
DownloadFetchAbort ==
    /\ pc = "dl_fetch"
    /\ UNCHANGED <<params_file, pureVars>>
    /\ \E got \in FetchOutcomes :
          /\ fetchLog' = Append(fetchLog, <<sampled_sessions[idx + 1], got>>)
          /\ responses' = IF got THEN Append(responses, sampled_sessions[idx + 1])
                          ELSE responses
          /\ failed_count' = IF got THEN failed_count ELSE failed_count + 1
          /\ pc' = IF got THEN AfterFetch(idx, Len(sampled_sessions), Len(responses'))
                   ELSE AfterFetch(Len(sampled_sessions) - 1, Len(sampled_sessions),
                                   Len(responses'))
          /\ idx' = IF got /\ idx + 1 < Len(sampled_sessions) THEN idx + 1 ELSE 0
    /\ UNCHANGED <<rec, now, writes, pollCount, cancels, storeFaults,
                   all_sessions, sampled_sessions, dataset_name, success_count,
                   failed_sessions, observed, raised, listings, nameLookups, uploadLog>>

\* download_responses, one iteration after its poll
DownloadFetch ==
    /\ pc = "dl_fetch"
    /\ UNCHANGED <<params_file, pureVars>>
    /\ \E got \in FetchOutcomes :
          /\ fetchLog' = Append(fetchLog, <<sampled_sessions[idx + 1], got>>)
          /\ responses' = IF got THEN Append(responses, sampled_sessions[idx + 1])
                          ELSE responses
          /\ failed_count' = IF got THEN failed_count ELSE failed_count + 1
          /\ pc' = AfterFetch(idx, Len(sampled_sessions), Len(responses'))
    /\ idx' = IF idx + 1 < Len(sampled_sessions) THEN idx + 1 ELSE 0
    /\ UNCHANGED <<rec, now, writes, pollCount, cancels, storeFaults,
                   all_sessions, sampled_sessions, dataset_name, success_count,
                   failed_sessions, observed, raised, listings, nameLookups, uploadLog>>

\* execute_task, `if len(responses) == 0`
FailNoResponses ==
    /\ pc = "no_responses"
    /\ UNCHANGED <<params_file, pureVars>>
    /\ \E ok \in StoreOutcomes :
          OrchWrite(ok, "failed", [completed_at |-> now, error_message |-> NoResponsesMsg])
    /\ pc' = "done"
    /\ UNCHANGED <<all_sessions, sampled_sessions, idx, responses, failed_count,
                   dataset_name, success_count, failed_sessions, histVars>>

\* execute_task, the call of upload_to_curation: an argument `params[...]`
\* of a key the bundle lacks raises before the call; else upload_to_curation,
\* Curation.add_variables: get_dataset_name walks the dataset pages and
\* answers the title or ""; a listed entry without "id" raises outside its try
UploadInit ==
    /\ pc = "up_init"
    /\ UNCHANGED <<params_file, pureVars>>
    /\ \/ \E name \in {"", "title"} :
            /\ nameLookups' = nameLookups + 1
            /\ dataset_name' = name
            /\ pc' = "up_poll"
            /\ raised' = raised
       \/ /\ nameLookups' = nameLookups + 1
          /\ pc' = "except"
          /\ raised' = "add_variables"
          /\ dataset_name' = dataset_name
       \/ /\ nameLookups' = nameLookups
          /\ pc' = "except"
          /\ raised' = "params"
          /\ dataset_name' = dataset_name
    /\ UNCHANGED <<rec, now, writes, pollCount, cancels, storeFaults,
                   all_sessions, sampled_sessions, idx, responses, failed_count,
                   success_count, failed_sessions,
                   observed, listings, fetchLog, uploadLog>>

\* upload_to_curation, `if idx % 10 == 0 and is_task_cancelled(task_id)`
UploadPoll ==
    /\ pc = "up_poll"
    /\ UNCHANGED <<params_file, pureVars>>
    /\ \E ok \in StoreOutcomes : Poll(ok, "up_post")
    /\ UNCHANGED <<all_sessions, sampled_sessions, idx, responses, failed_count,
                   dataset_name, success_count, failed_sessions,
                   raised, listings, fetchLog, nameLookups, uploadLog>>

\* where upload_to_curation / execute_task go after item i of n
AfterUpload(i, n) ==
    IF i + 1 < n
    THEN (IF (i + 1) % PollEvery = 0 THEN "up_poll" ELSE "up_post")
    ELSE "summarize"

\* what one upload2curation call may do: the platform accepts the document,
\* answers a JSON error body (no exception: r.json() parses it), or the call
\* raises (transport error, body that is no JSON)
UploadOutcomes ==
    IF Faults < MaxFaults THEN {"accepted", "rejected", "raised"} ELSE {"accepted"}

\* upload_to_curation logging a failed upload without keeping its session
UploadPostDropFailed ==
    /\ pc = "up_post"
    /\ UNCHANGED <<params_file, pureVars>>
    /\ \E out \in UploadOutcomes :
          /\ uploadLog' = Append(uploadLog, <<responses[idx + 1], out>>)
          /\ success_count' = IF out = "raised" THEN success_count ELSE success_count + 1
    /\ pc' = AfterUpload(idx, Len(responses))
    /\ idx' = idx + 1
    /\ UNCHANGED <<rec, now, writes, pollCount, cancels, storeFaults,
                   all_sessions, sampled_sessions, responses, failed_count,
                   failed_sessions,
                   dataset_name, observed, raised, listings, fetchLog, nameLookups>>

\* upload_to_curation posting a document again when its upload raised
UploadPostRetry ==
    /\ pc = "up_post"
    /\ UNCHANGED <<params_file, pureVars>>
    /\ \E out \in UploadOutcomes :
          /\ uploadLog' = Append(uploadLog, <<responses[idx + 1], out>>)
          /\ success_count' = IF out = "raised" THEN success_count ELSE success_count + 1
          /\ failed_sessions' = IF out = "raised"
                                THEN Append(failed_sessions, responses[idx + 1])
                                ELSE failed_sessions
          /\ pc' = IF out = "raised" THEN "up_post" ELSE AfterUpload(idx, Len(responses))
          /\ idx' = IF out = "raised" THEN idx ELSE idx + 1
    /\ UNCHANGED <<rec, now, writes, pollCount, cancels, storeFaults,
                   all_sessions, sampled_sessions, responses, failed_count,
                   dataset_name, observed, raised, listings, fetchLog, nameLookups>>

\* upload_to_curation without the try around upload2curation: the exception
\* of one document reaches execute_task
UploadPostNoTry ==
    /\ pc = "up_post"
    /\ UNCHANGED <<params_file, pureVars>>
    /\ \E out \in UploadOutcomes :
          /\ uploadLog' = Append(uploadLog, <<responses[idx + 1], out>>)
          /\ success_count' = IF out = "raised" THEN success_count ELSE success_count + 1
          /\ pc' = IF out = "raised" THEN "except" ELSE AfterUpload(idx, Len(responses))
          /\ raised' = IF out = "raised" THEN "upload2curation" ELSE raised
    /\ idx' = idx + 1
    /\ UNCHANGED <<rec, now, writes, pollCount, cancels, storeFaults,
                   all_sessions, sampled_sessions, responses, failed_count,
                   dataset_name, failed_sessions,
                   observed, listings, fetchLog, nameLookups>>

\* upload_to_curation, one iteration after its poll
UploadPost ==
    /\ pc = "up_post"
    /\ UNCHANGED <<params_file, pureVars>>
    /\ \E out \in UploadOutcomes :
          /\ uploadLog' = Append(uploadLog, <<responses[idx + 1], out>>)
          /\ success_count' = IF out = "raised" THEN success_count ELSE success_count + 1
          /\ failed_sessions' = IF out = "raised"
                                THEN Append(failed_sessions, responses[idx + 1])
                                ELSE failed_sessions
    /\ pc' = AfterUpload(idx, Len(responses))
    /\ idx' = idx + 1
    /\ UNCHANGED <<rec, now, writes, pollCount, cancels, storeFaults,
                   all_sessions, sampled_sessions, responses, failed_count,
                   dataset_name, observed, raised, listings, fetchLog, nameLookups>>

\* a summary whose total is the number of downloaded documents
result_summary_of_responses(sampled, resps, upload_result) ==
    [total_sessions |-> Len(resps),
     downloaded_responses |-> Len(resps),
     uploaded_successfully |-> upload_result.success_count,
     failed_uploads |-> Len(upload_result.failed_sessions),
     dataset_id |-> "params.dataset_id",
     version_name |-> "params.version_name",
     client_id |-> "params.client_id"]

\* execute_task, "Create result summary"
result_summary(sampled, resps, upload_result) ==
    [total_sessions |-> Len(sampled),
     downloaded_responses |-> Len(resps),
     uploaded_successfully |-> upload_result.success_count,
     failed_uploads |-> Len(upload_result.failed_sessions),
     dataset_id |-> "params.dataset_id",
     version_name |-> "params.version_name",
     client_id |-> "params.client_id"]

\* execute_task, "Mark as completed"
Summarize ==
    /\ pc = "summarize"
    /\ UNCHANGED <<params_file, pureVars>>
    /\ \E ok \in StoreOutcomes :
          OrchWrite(ok, "completed",
                    [completed_at |-> now,
                     result_summary |->
                        <<result_summary(sampled_sessions, responses,
                                         [success_count |-> success_count,
                                          failed_sessions |-> failed_sessions])>>])
    /\ pc' = "done"
    /\ UNCHANGED <<all_sessions, sampled_sessions, idx, responses, failed_count,
                   dataset_name, success_count, failed_sessions, histVars>>

\* execute_task without its handler: the exception reaches main
HandleExceptionReraise ==
    /\ pc = "except"
    /\ pc' = "escaped"
    /\ UNCHANGED <<rec, now, writes, pollCount, cancels, storeFaults,
                   all_sessions, sampled_sessions, idx, responses, failed_count,
                   dataset_name, success_count, failed_sessions, histVars,
                   params_file, pureVars>>

\* execute_task, `except Exception as e`
HandleException ==
    /\ pc = "except"
    /\ UNCHANGED <<params_file, pureVars>>
    /\ \E ok \in StoreOutcomes :
          OrchWrite(ok, "failed", [completed_at |-> now, error_message |-> ExcMsg])
    /\ pc' = "done"
    /\ UNCHANGED <<all_sessions, sampled_sessions, idx, responses, failed_count,
                   dataset_name, success_count, failed_sessions, histVars>>

\* ------------------------------------------------------------------ canceller
\* streamlit.cancel_task, from another process, at any time. Its flag in
\* st.session_state.active_tasks lives in the dashboard's session, which
\* execute_task never reads. A cancel_task whose store call raises changes
\* nothing (update_task_status swallows the error): it is a stuttering step
\* and needs no disjunct.
CancelTask ==
    /\ cancels < MaxCancels
    /\ UNCHANGED <<params_file, pureVars>>
    /\ cancels' = cancels + 1
    /\ rec' = ui_update_task_status(rec, TRUE, now, "cancelled", CancelMsg, <<>>)
    /\ LogWrite("canceller", TRUE, ui_update_data(now, "cancelled", CancelMsg, <<>>))
    /\ UNCHANGED <<pollCount, storeFaults, orchVars, histVars>>

Next ==
    \/ LoadParams
    \/ MarkStarted
    \/ PollBeforeStart
    \/ FetchSessions
    \/ PollAfterFetch
    \/ FailNoSessions
    \/ DownloadRaise
    \/ DownloadPoll
    \/ DownloadFetch
    \/ FailNoResponses
    \/ UploadInit
    \/ UploadPoll
    \/ UploadPost
    \/ Summarize
    \/ HandleException
    \/ CleanUp
    \/ CancelTask

Spec == Init /\ [][Next]_vars

\* ------------------------------------------------------------------ pure functions
\* the functions of the pipeline that depend on their arguments only, each
\* applied once to an input drawn from a bounded set
runVars == <<rec, now, writes, pollCount, cancels, storeFaults, orchVars, histVars,
             params_file>>

StoreIds == {"s1", "s2", "s3"}
ImageCounts == {0, 1, 2}

\* a session record as the listing returns it, cut down to the keys the
\* functions below read
SessionRecord(id, store, images) ==
    [session_id |-> id, store_id |-> store, num_images |-> images,
     category_name |-> "c1"]

\* arg is a list of n records in which session ids repeat, with equal or
\* different stores
IsDuplicateList(n) ==
    \E f \in [1..n -> (1..3) \X {"s1", "s2"}] :
        arg = [i \in 1..n |-> SessionRecord(f[i][1], f[i][2], 1)]

\* arg is a list of n records with distinct session ids (record i has id i),
\* any store and any image count
IsGroupList(n) ==
    \E f \in [1..n -> StoreIds \X ImageCounts] :
        arg = [i \in 1..n |-> SessionRecord(i, f[i][1], f[i][2])]

\* the members of a list
Range(s) == {s[i] : i \in DOMAIN s}

\* streamlit.fetch_and_sample_sessions, "Remove duplicates": the for loop,
\* from item i of all_data on
RECURSIVE remove_duplicates(_, _, _, _)
remove_duplicates(all_data, i, seen, filtered_data) ==
    IF i > Len(all_data) THEN filtered_data
    ELSE LET item == all_data[i]
             sess_id == item.session_id
         IN  IF sess_id \notin seen
             THEN remove_duplicates(all_data, i + 1, seen \cup {sess_id},
                                    Append(filtered_data, item))
             ELSE remove_duplicates(all_data, i + 1, seen, filtered_data)

\* "Remove duplicates" testing the whole record, not its session id
filtered_data_by_record(all_data) ==
    LET kept == remove_duplicates([i \in DOMAIN all_data |->
                                      [session_id |-> all_data[i], item |-> all_data[i]]],
                                  1, {}, <<>>)
    IN  [k \in DOMAIN kept |-> kept[k].item]

\* "Remove duplicates", from `seen = set()` to the end of the loop
filtered_data_of(all_data) == remove_duplicates(all_data, 1, {}, <<>>)

\* sum of num_images over a list of session records
RECURSIVE TotalImages(_)
TotalImages(sessions) ==
    IF sessions = <<>> THEN 0
    ELSE sessions[1].num_images + TotalImages(Tail(sessions))

\* the first loop filing every session under one key
unique_store_ids_one_key(response, ind, acc) ==
    [keys |-> IF response = <<>> THEN <<>> ELSE <<"all">>,
     by |-> IF response = <<>> THEN <<>>
            ELSE "all" :> [i \in DOMAIN response |-> <<response[i].num_images, i - 1>>],
     total_imgs |-> TotalImages(response)]

\* store_wise_filter, the first loop: unique_store_ids as its keys in
\* insertion order and the [num_images, ind] lists by key, and total_imgs;
\* ind counts from 0 as enumerate does
RECURSIVE unique_store_ids_of(_, _, _)
unique_store_ids_of(response, ind, acc) ==
    IF ind >= Len(response) THEN acc
    ELSE LET session == response[ind + 1]
             store_id == session.store_id
             entry == <<session.num_images, ind>>
         IN  unique_store_ids_of(response, ind + 1,
                IF store_id \notin DOMAIN acc.by
                THEN [keys |-> Append(acc.keys, store_id),
                      by |-> (store_id :> <<entry>>) @@ acc.by,
                      total_imgs |-> acc.total_imgs + session.num_images]
                ELSE [keys |-> acc.keys,
                      by |-> [acc.by EXCEPT ![store_id] = Append(@, entry)],
                      total_imgs |-> acc.total_imgs + session.num_images])

\* the second loop adding a session only if the budget still holds it
RECURSIVE select_indices_fitting(_, _, _, _, _, _)
select_indices_fitting(u, count, iter_, k, num_images, indices) ==
    IF k > Len(u.keys)
    THEN (IF num_images < count
          THEN select_indices_fitting(u, count, iter_ + 1, 1, num_images, indices)
          ELSE indices)
    ELSE LET sessions == u.by[u.keys[k]]
         IN  IF iter_ + 1 <= Len(sessions)
             THEN LET det_ == sessions[iter_ + 1]
                  IN  IF num_images + det_[1] > count
                      THEN indices
                      ELSE select_indices_fitting(u, count, iter_, k + 1,
                                                  num_images + det_[1],
                                                  Append(indices, det_[2]))
             ELSE select_indices_fitting(u, count, iter_, k + 1, num_images, indices)

\* store_wise_filter, the second loop, standing in round iter_ before key
\* number k of unique_store_ids: a key without an entry for the round raises
\* IndexError, which is passed over; `break` leaves the for loop with
\* num_images > count, which ends the while loop too
RECURSIVE select_indices(_, _, _, _, _, _)
select_indices(u, count, iter_, k, num_images, indices) ==
    IF k > Len(u.keys)
    THEN (IF num_images < count
          THEN select_indices(u, count, iter_ + 1, 1, num_images, indices)
          ELSE indices)
    ELSE LET sessions == u.by[u.keys[k]]
         IN  IF iter_ + 1 <= Len(sessions)
             THEN LET det_ == sessions[iter_ + 1]
                      num_images2 == num_images + det_[1]
                      indices2 == Append(indices, det_[2])
                  IN  IF num_images2 > count
                      THEN indices2
                      ELSE select_indices(u, count, iter_, k + 1, num_images2, indices2)
             ELSE select_indices(u, count, iter_, k + 1, num_images, indices)

\* store_wise_filter keeping the whole group only below the budget
store_wise_filter_below(response, count) ==
    LET u == unique_store_ids_of(response, 0,
                                 [keys |-> <<>>, by |-> <<>>, total_imgs |-> 0])
    IN  IF u.total_imgs < count THEN response
        ELSE LET indices == IF 0 < count
                            THEN select_indices(u, count, 0, 1, 0, <<>>)
                            ELSE <<>>
             IN  [j \in DOMAIN indices |-> response[indices[j] + 1]]

\* utils.store_wise_filter
store_wise_filter(response, count) ==
    LET u == unique_store_ids_of(response, 0,
                                 [keys |-> <<>>, by |-> <<>>, total_imgs |-> 0])
    IN  IF u.total_imgs <= count THEN response
        ELSE LET indices == IF 0 < count
                            THEN select_indices(u, count, 0, 1, 0, <<>>)
                            ELSE <<>>
             IN  [j \in DOMAIN indices |-> response[indices[j] + 1]]

\* store_and_category_wise_filter, the first loop: category_wise_response as
\* its keys in insertion order and the session lists by key
RECURSIVE category_wise_response_of(_, _, _)
category_wise_response_of(response, i, acc) ==
    IF i > Len(response) THEN acc
    ELSE LET cate_ == response[i].category_name
         IN  category_wise_response_of(response, i + 1,
                IF cate_ \notin DOMAIN acc.by
                THEN [keys |-> Append(acc.keys, cate_),
                      by |-> (cate_ :> <<response[i]>>) @@ acc.by]
                ELSE [keys |-> acc.keys,
                      by |-> [acc.by EXCEPT ![cate_] = Append(@, response[i])]])

\* store_and_category_wise_filter, the second loop from key number k on;
\* count[i][1] of the source is the second element of the category's entry
RECURSIVE filtered_sessions_of(_, _, _, _)
filtered_sessions_of(c, count, k, filtered_sessions) ==
    IF k > Len(c.keys) THEN filtered_sessions
    ELSE filtered_sessions_of(c, count, k + 1,
            filtered_sessions \o store_wise_filter(c.by[c.keys[k]], count[c.keys[k]][2]))

\* utils.store_and_category_wise_filter
store_and_category_wise_filter(response, count) ==
    filtered_sessions_of(
        category_wise_response_of(response, 1, [keys |-> <<>>, by |-> <<>>]),
        count, 1, <<>>)

\* the answers of the AI controller to the two GETs of
\* fetch_output_from_ai_controller: how the transport ended, the HTTP status
\* and the body
Transports == {"ok", "ConnectionError", "Timeout"}
HttpCodes == {200, 500}
PointerBodies == {"not json", "[]", "{}", "[{}]", "[{output: null}]", "[{output: url}]"}
DocumentBodies == {"not json", "[]", "{}", "{status: failed}", "{status: success}"}
Replies(bodies) == [transport : Transports, code : HttpCodes, body : bodies]

\* what a call leaves its caller with
Returned(v) == [raised |-> FALSE, value |-> v]
Raised == [raised |-> TRUE, value |-> NULL]

\* fetch_output_from_ai_controller without its two handlers and without its
\* test of the status field
fetch_output_unguarded(result1, result2) ==
    IF \/ result1.transport # "ok"
       \/ result1.code >= 400
       \/ result1.body \notin {"[{output: null}]", "[{output: url}]"}
    THEN Raised
    ELSE IF \/ result1.body = "[{output: null}]"
            \/ result2.transport # "ok"
            \/ result2.body \in {"not json", "[]"}
         THEN Raised
         ELSE Returned(result2.body)

\* task_runner.fetch_output_from_ai_controller: requests.get raises on a
\* transport error or a timeout, raise_for_status on a status from 400 up,
\* result.json() on a body that is no JSON, [0] on an empty array or an
\* object, ["output"] on an element without that key, all inside the outer
\* try; the second requests.get (which raises at once on a pointer that is
\* no URL), its .json() and response.get("status") (which an array does not
\* have) stand inside the inner try, and raise_for_status is not called on
\* the second answer; both handlers log and fall through to `return None`
fetch_output_from_ai_controller(result1, result2) ==
    IF \/ result1.transport # "ok"
       \/ result1.code >= 400
       \/ result1.body \notin {"[{output: null}]", "[{output: url}]"}
    THEN Returned(NULL)
    ELSE IF \/ result1.body = "[{output: null}]"
            \/ result2.transport # "ok"
            \/ result2.body \in {"not json", "[]"}
         THEN Returned(NULL)
         ELSE IF result2.body = "{status: success}"
              THEN Returned(result2.body)
              ELSE Returned(NULL)

\* what the session source answers to one request of get_processed_session:
\* the transport fails, or the body is no JSON, or it is JSON without
\* "results", or it is a page of records; the "next" of a page is the URL of
\* the following answer ("page", null when no answer follows), or it is null
\* or the empty string although the source holds more, or the key is missing
PageFaults == {"ConnectionError", "Timeout", "not json", "no results"}
LastPages == {"page, next null", "page, next empty", "page, no next"}
PageReplies == PageFaults \cup {"page"} \cup LastPages

\* the answers to the successive requests for one combination; a page names
\* a next page exactly when another answer follows it
ComboReplies == UNION {[1..n -> PageReplies] : n \in 1..MaxPages}

\* the record on page j of combination c, a (category, photo type, channel)
\* triple
PageRecord(c, j) == SessionRecord(<<c, j>>, "s1", 1)

\* get_processed_session reading "next" before it takes the records of the
\* page
RECURSIVE get_processed_session_next_first(_, _, _, _)
get_processed_session_next_first(replies, c, j, sessions) ==
    IF j > Len(replies) THEN Returned(sessions)
    ELSE IF replies[j] \in {"ConnectionError", "Timeout"} THEN Raised
    ELSE IF replies[j] \in {"not json", "no results"} THEN Returned(sessions)
    ELSE IF replies[j] = "page, no next" THEN Returned(sessions)
    ELSE IF replies[j] \in LastPages THEN Returned(Append(sessions, PageRecord(c, j)))
    ELSE get_processed_session_next_first(replies, c, j + 1,
                                          Append(sessions, PageRecord(c, j)))

\* Infiviz.get_processed_session, the while loop before request number j:
\* requests.post stands outside the try, so a transport error leaves the
\* method; r.json(), response["results"] and response["next"] stand inside
\* it, and their exception returns what was collected: for a page without
\* "next" that is after `sessions.extend(response["results"])`. A null or
\* empty next_url ends the while loop.
\* modify_category_label rewrites labels inside the records' images and
\* leaves the keys of SessionRecord alone.
RECURSIVE get_processed_session(_, _, _, _)
get_processed_session(replies, c, j, sessions) ==
    IF j > Len(replies) THEN Returned(sessions)
    ELSE IF replies[j] \in {"ConnectionError", "Timeout"} THEN Raised
    ELSE IF replies[j] \in {"not json", "no results"} THEN Returned(sessions)
    ELSE IF replies[j] \in LastPages THEN Returned(Append(sessions, PageRecord(c, j)))
    ELSE get_processed_session(replies, c, j + 1, Append(sessions, PageRecord(c, j)))

\* the categories, photo types and channels of a run, as add_variables
\* splits them
Categories == {<<"cat1">>, <<"cat1", "cat2">>}
PhotoTypes == {<<"pt1">>, <<"pt1", "pt2">>}
Channels == {<<"ch1">>, <<"ch1", "ch2">>}

\* what the session source serves for one combination of a traversal: no
\* record, one page, two pages, a page and a body that is no JSON, a
\* transport error at once or after a page
TripleReplies ==
    {<<"no results">>, <<"page">>, <<"page", "page">>, <<"page", "not json">>,
     <<"ConnectionError">>, <<"page", "Timeout">>}

\* the combinations the session source can be asked for
Urls(categories, photo_types, channels) ==
    {categories[i] : i \in DOMAIN categories}
    \X {photo_types[i] : i \in DOMAIN photo_types}
    \X {channels[i] : i \in DOMAIN channels}

\* the triples with the channel as the slowest and the category as the
\* fastest position
product_channel_major(categories, photo_types, channels) ==
    LET np == Len(photo_types)
        nc == Len(categories)
    IN  [i \in 1..(Len(categories) * np * Len(channels)) |->
            <<categories[((i - 1) % nc) + 1],
              photo_types[(((i - 1) \div nc) % np) + 1],
              channels[((i - 1) \div (nc * np)) + 1]>>]

\* list(itertools.product(*[self.categories, self.photo_types,
\* self.channels])): the last position runs fastest
product(categories, photo_types, channels) ==
    LET np == Len(photo_types)
        nh == Len(channels)
    IN  [i \in 1..(Len(categories) * np * nh) |->
            <<categories[((i - 1) \div (np * nh)) + 1],
              photo_types[(((i - 1) \div nh) % np) + 1],
              channels[((i - 1) % nh) + 1]>>]

\* Infiviz.get_combinations(processed=True), the for loop from combination
\* number c on; the URL of a combination names its triple, and replies gives
\* what the source serves for that URL. A non-empty tmp_session extends
\* all_sessions, an exception of get_processed_session leaves the method
RECURSIVE get_combinations(_, _, _, _)
get_combinations(combinations, replies, c, all_sessions_) ==
    IF c > Len(combinations) THEN Returned(all_sessions_)
    ELSE LET tmp_session == get_processed_session(replies[combinations[c]],
                                                  combinations[c], 1, <<>>)
         IN  IF tmp_session.raised THEN Raised
             ELSE get_combinations(combinations, replies, c + 1,
                                   IF Len(tmp_session.value) > 0
                                   THEN all_sessions_ \o tmp_session.value
                                   ELSE all_sessions_)

\* Python values handed to change_str2bool, by type and printed form
PyStr(s) == [type |-> "str", v |-> s]
PyBool(b) == [type |-> "bool", v |-> IF b THEN "True" ELSE "False"]
PyValues ==
    {PyStr(s) : s \in {"true", "True", "TRUE", "tRuE", "false", "False", "FALSE",
                       "maybe", "Maybe", "", "1"}}
    \cup {PyBool(b) : b \in BOOLEAN}
    \cup {[type |-> "int", v |-> "1"], [type |-> "NoneType", v |-> "None"]}

\* str.lower on the strings of PyValues
lower(s) ==
    CASE s \in {"true", "True", "TRUE", "tRuE"} -> "true"
      [] s \in {"false", "False", "FALSE"} -> "false"
      [] s \in {"maybe", "Maybe"} -> "maybe"
      [] OTHER -> s

\* utils.change_str2bool: str_.lower() exists on a str only; on a bool, an
\* int or None the attribute lookup raises AttributeError
change_str2bool(str_) ==
    IF str_.type # "str" THEN Raised
    ELSE IF lower(str_.v) = "true" THEN Returned(PyBool(TRUE))
    ELSE IF lower(str_.v) = "false" THEN Returned(PyBool(FALSE))
    ELSE Returned(str_)

\* numbers of {title, name} rows handed to add_labels: around every multiple
\* of the batch size
LabelRowCounts ==
    {n \in {k * FlushAt + d : k \in 0..MaxLabelBatches, d \in {-1, 0, 1}} : n >= 0}

\* add_labels before its loop: no row read, ind = 0, label_json[level] empty,
\* nothing posted; rows are named by their place in the sheet
add_labels_start ==
    [row |-> 0, ind |-> 0, bucket |-> <<>>, posts |-> <<>>]

\* one pass of the loop that posts at 490 entries and does not empty
\* label_json[level]
add_labels_row_keep(st, row) ==
    LET flush == st.ind = FlushAt
    IN  [row |-> row,
         ind |-> (IF flush THEN 0 ELSE st.ind) + 1,
         bucket |-> Append(st.bucket, row),
         posts |-> IF flush THEN Append(st.posts, st.bucket) ELSE st.posts]

\* add_labels, one pass of `for i,m in zip(df[ii],df[mm])`: with ind at 490
\* label_json is posted, label_json[level] emptied and ind reset; then the
\* row is appended and ind incremented
add_labels_row(st, row) ==
    LET flush == st.ind = FlushAt
    IN  [row |-> row,
         ind |-> (IF flush THEN 0 ELSE st.ind) + 1,
         bucket |-> Append(IF flush THEN <<>> ELSE st.bucket, row),
         posts |-> IF flush THEN Append(st.posts, st.bucket) ELSE st.posts]

\* add_labels after its loop: label_json is posted once more
add_labels_end(st) ==
    [row |-> st.row, ind |-> st.ind, bucket |-> st.bucket,
     posts |-> Append(st.posts, st.bucket)]

\* an entry of the curation platform's dataset listing
Dataset(id, title) == [id |-> id, title |-> title]

\* what the platform answers to one request of get_dataset_name: a fault
\* (transport error, body that is no JSON, JSON without "results") or a page
\* of entries; two datasets may carry the same id
DatasetFault(kind) == [kind |-> kind, results |-> <<>>]
DatasetPage(results) == [kind |-> "page", results |-> results]
DatasetReplies ==
    {DatasetFault(k) : k \in {"ConnectionError", "not json", "no results"}}
    \cup {DatasetPage(r) : r \in {<<>>,
                                  <<Dataset(7, "A")>>,
                                  <<Dataset(5, "B")>>,
                                  <<Dataset(5, "B"), Dataset(7, "A")>>,
                                  <<Dataset(7, "A2")>>}}

\* the answers to the successive requests of one walk; a page names a next
\* page exactly when another answer follows it
DatasetListings == UNION {[1..n -> DatasetReplies] : n \in 1..MaxPages}

\* get_dataset_name, the while loop before request number j: requests.get,
\* r.json(), r["results"] and r["next"] stand inside the try, whose handler
\* prints and breaks
RECURSIVE dataset_pages(_, _, _)
dataset_pages(replies, j, response) ==
    IF j > Len(replies) THEN response
    ELSE IF replies[j].kind # "page" THEN response
    ELSE dataset_pages(replies, j + 1, response \o replies[j].results)

\* the second loop answering the title of the last entry with the id
RECURSIVE title_of_last(_, _, _)
title_of_last(response, dataset_id, name) ==
    IF response = <<>> THEN name
    ELSE title_of_last(Tail(response), dataset_id,
                       IF dataset_id = response[1].id THEN response[1].title ELSE name)

\* get_dataset_name, `for r in response`: the title of the first entry whose
\* id is the configured one, or name as it was set before the loops
RECURSIVE title_of(_, _, _)
title_of(response, dataset_id, name) ==
    IF response = <<>> THEN name
    ELSE IF dataset_id = response[1].id THEN response[1].title
    ELSE title_of(Tail(response), dataset_id, name)

\* Curation.get_dataset_name
get_dataset_name(replies, dataset_id) ==
    Returned(title_of(dataset_pages(replies, 1, <<>>), dataset_id, ""))

\* Curation.upload2curation, the body it posts
upload2curation_data(req_data, self_dataset_name) ==
    [session |-> req_data, softtags |-> "self.softtags",
     dataset |-> self_dataset_name, version |-> "self.version_name"]

PureInit ==
    /\ OrchInit
    /\ fn = "idle"
    /\ \E n \in 0..MaxItems : IsDuplicateList(n) \/ IsGroupList(n)
    /\ budget = 0
    /\ result = <<>>

ApplyRemoveDuplicates ==
    /\ fn = "idle"
    /\ fn' = "remove_duplicates"
    /\ result' = filtered_data_of(arg)
    /\ UNCHANGED <<arg, budget, runVars>>

ApplyStoreWiseFilter ==
    /\ fn = "idle"
    /\ fn' = "store_wise_filter"
    /\ \E count \in 0..MaxBudget :
          /\ budget' = count
          /\ result' = store_wise_filter(arg, count)
    /\ UNCHANGED <<arg, runVars>>

ApplyFetchOutput ==
    /\ fn = "idle"
    /\ arg = <<>>
    /\ fn' = "fetch_output_from_ai_controller"
    /\ \E result1 \in Replies(PointerBodies), result2 \in Replies(DocumentBodies) :
          /\ arg' = <<result1, result2>>
          /\ result' = fetch_output_from_ai_controller(result1, result2)
    /\ UNCHANGED <<budget, runVars>>

\* the paging of one combination
ApplyGetProcessedSession ==
    /\ fn = "idle"
    /\ arg = <<>>
    /\ fn' = "get_processed_session"
    /\ \E replies \in ComboReplies :
          /\ arg' = replies
          /\ result' = get_processed_session(replies, <<"cat1", "pt1", "ch1">>, 1, <<>>)
    /\ UNCHANGED <<budget, runVars>>

\* a traversal: two of the three sets have one or two members, so that up
\* to four combinations are asked for
ApplyGetCombinations ==
    /\ fn = "idle"
    /\ arg = <<>>
    /\ fn' = "get_combinations"
    /\ \E categories \in Categories, photo_types \in PhotoTypes, channels \in Channels :
          /\ Len(categories) * Len(photo_types) * Len(channels) <= MaxCombinations
          /\ \E replies \in [Urls(categories, photo_types, channels)
                                 -> TripleReplies] :
                /\ arg' = [categories |-> categories, photo_types |-> photo_types,
                           channels |-> channels, replies |-> replies]
                /\ result' = get_combinations(
                                 product(categories, photo_types, channels),
                                 replies, 1, <<>>)
    /\ UNCHANGED <<budget, runVars>>

ApplyChangeStr2Bool ==
    /\ fn = "idle"
    /\ arg = <<>>
    /\ fn' = "change_str2bool"
    /\ \E str_ \in PyValues :
          /\ arg' = str_
          /\ result' = change_str2bool(str_)
    /\ UNCHANGED <<budget, runVars>>

AddLabelsCall ==
    /\ fn = "idle"
    /\ arg = <<>>
    /\ fn' = "add_labels"
    /\ \E n \in LabelRowCounts : arg' = n
    /\ result' = add_labels_start
    /\ UNCHANGED <<budget, runVars>>

AddLabelsRow ==
    /\ fn = "add_labels"
    /\ result.row < arg
    /\ result' = add_labels_row(result, result.row + 1)
    /\ UNCHANGED <<fn, arg, budget, runVars>>

AddLabelsReturn ==
    /\ fn = "add_labels"
    /\ result.row = arg
    /\ fn' = "add_labels returned"
    /\ result' = add_labels_end(result)
    /\ UNCHANGED <<arg, budget, runVars>>

\* ---- the two orchestrators on the same answers, without a cancellation
\* and with a healthy store

\* what the collaborators answer in one run: the listing (the traversal
\* raised, or the session ids of inf.all_sessions, where a session returned
\* for two combinations stands twice), and by session id whether the AI
\* controller gives a document; what the curation platform answers to an
\* upload changes neither the requests made nor the closing status
ListedIds == 1..3
RunAnswers(l, raises, docs) ==
    [listing |-> [raised |-> raises, value |-> l], docs |-> docs]

\* the records of a listing
listed_records(l) == [i \in DOMAIN l |-> SessionRecord(l[i], "s1", 1)]

\* stage 2 of both orchestrators: the documents of the sessions that gave
\* one, in list order, named by their session
downloaded(sampled_sessions_, docs) ==
    SelectSeq([i \in DOMAIN sampled_sessions_ |-> sampled_sessions_[i].session_id],
              LAMBDA sess_id : docs[sess_id])

\* stage 3 of both orchestrators: one upload request per document, in order
upload_requests(responses_) == responses_

\* task_runner.execute_task: the status of its closing write and the upload
\* requests it made; fetch_and_sample_sessions returns inf.all_sessions as
\* it is
execute_task_run(answers) ==
    IF answers.listing.raised THEN [status |-> "failed", uploads |-> <<>>]
    ELSE LET sampled_sessions_ == listed_records(answers.listing.value)
             responses_ == downloaded(sampled_sessions_, answers.docs)
         IN  IF Len(sampled_sessions_) = 0 THEN [status |-> "failed", uploads |-> <<>>]
             ELSE IF Len(responses_) = 0 THEN [status |-> "failed", uploads |-> <<>>]
             ELSE [status |-> "completed", uploads |-> upload_requests(responses_)]

\* streamlit.run_task: fetch_and_sample_sessions removes the duplicates and
\* keeps every group; an empty list is not tested for and ends at the test
\* for no responses
run_task_run(answers) ==
    IF answers.listing.raised THEN [status |-> "failed", uploads |-> <<>>]
    ELSE LET sampled_sessions_ == filtered_data_of(listed_records(answers.listing.value))
             responses_ == downloaded(sampled_sessions_, answers.docs)
         IN  IF Len(responses_) = 0 THEN [status |-> "failed", uploads |-> <<>>]
             ELSE [status |-> "completed", uploads |-> upload_requests(responses_)]

\* both orchestrators run on the same answers
ApplyOrchestrators ==
    /\ fn = "idle"
    /\ arg = <<>>
    /\ fn' = "orchestrators"
    /\ \E n \in 0..MaxItems :
          \E l \in [1..n -> ListedIds], raises \in BOOLEAN,
             docs \in [ListedIds -> BOOLEAN] :
              /\ arg' = RunAnswers(l, raises, docs)
              /\ result' = [execute_task |-> execute_task_run(arg'),
                            run_task |-> run_task_run(arg')]
    /\ UNCHANGED <<budget, runVars>>

\* add_variables resolving the name, the same resolution made once more
\* against the same answers, and the body of an upload made with the name
ApplyGetDatasetName ==
    /\ fn = "idle"
    /\ arg = <<>>
    /\ fn' = "get_dataset_name"
    /\ \E replies \in DatasetListings :
          /\ arg' = [dataset_id |-> 7, replies |-> replies]
          /\ result' = get_dataset_name(replies, 7)
                        @@ [again |-> get_dataset_name(replies, 7),
                            data |-> upload2curation_data(
                                        "resp", get_dataset_name(replies, 7).value)]
    /\ UNCHANGED <<budget, runVars>>

PureNext ==
    \/ ApplyRemoveDuplicates
    \/ ApplyStoreWiseFilter
    \/ ApplyFetchOutput
    \/ ApplyGetProcessedSession
    \/ ApplyGetCombinations
    \/ ApplyChangeStr2Bool
    \/ AddLabelsCall
    \/ AddLabelsRow
    \/ AddLabelsReturn
    \/ ApplyGetDatasetName
    \/ ApplyOrchestrators

PureSpec == PureInit /\ [][PureNext]_vars

\* ------------------------------------------------------------------ sampler
\* store_wise_filter run statement by statement on one group

\* the second loop before its first round
select_start ==
    [at |-> "while", iter_ |-> 0, k |-> 1, num_images |-> 0, indices |-> <<>>,
     value |-> <<>>]

\* the loop state after the body of the for loop has been left for key k:
\* the next key, or `iter_+=1` and the test of the while loop
select_next_key(u, st, num_images, indices) ==
    IF st.k + 1 > Len(u.keys)
    THEN [at |-> "while", iter_ |-> st.iter_ + 1, k |-> 1,
          num_images |-> num_images, indices |-> indices, value |-> <<>>]
    ELSE [at |-> "for", iter_ |-> st.iter_, k |-> st.k + 1,
          num_images |-> num_images, indices |-> indices, value |-> <<>>]

\* the body of the for loop without its try: the IndexError of a store that
\* has no session for the round leaves store_wise_filter
select_pass_notry(u, count, st) ==
    LET sessions == u.by[u.keys[st.k]]
    IN  IF st.iter_ + 1 <= Len(sessions)
        THEN LET det_ == sessions[st.iter_ + 1]
                 num_images == st.num_images + det_[1]
                 indices == Append(st.indices, det_[2])
             IN  IF num_images > count
                 THEN [at |-> "while", iter_ |-> st.iter_ + 1, k |-> 1,
                       num_images |-> num_images, indices |-> indices,
                       value |-> <<>>]
                 ELSE select_next_key(u, st, num_images, indices)
        ELSE [at |-> "raised", iter_ |-> st.iter_, k |-> st.k,
              num_images |-> st.num_images, indices |-> st.indices, value |-> <<>>]

\* store_wise_filter, one pass of `for store_id in unique_store_ids.keys()`
\* for key number k in round iter_: the session of the round is counted and
\* its index appended, and `break` leaves the for loop when num_images
\* exceeds count; a store without a session for the round raises IndexError
\* inside the try, which `except: pass` passes over
select_pass(u, count, st) ==
    LET sessions == u.by[u.keys[st.k]]
    IN  IF st.iter_ + 1 <= Len(sessions)
        THEN LET det_ == sessions[st.iter_ + 1]
                 num_images == st.num_images + det_[1]
                 indices == Append(st.indices, det_[2])
             IN  IF num_images > count
                 THEN [at |-> "while", iter_ |-> st.iter_ + 1, k |-> 1,
                       num_images |-> num_images, indices |-> indices,
                       value |-> <<>>]
                 ELSE select_next_key(u, st, num_images, indices)
        ELSE select_next_key(u, st, st.num_images, st.indices)

\* arg is a list of n records with distinct session ids, of one or two
\* stores in any order, with any image count
IsSamplerGroup(n) ==
    \E f \in [1..n -> {"s1", "s2"} \X ImageCounts] :
        arg = [i \in 1..n |-> SessionRecord(i, f[i][1], f[i][2])]

\* a group handed to the sampler
SamplerInit ==
    /\ OrchInit
    /\ fn = "idle"
    /\ \E n \in 0..MaxGroup : IsSamplerGroup(n)
    /\ budget = 0
    /\ result = <<>>

\* store_wise_filter up to `if total_imgs<=count: return response`
SamplerCall ==
    /\ fn = "idle"
    /\ \E count \in 0..MaxBudget :
          /\ budget' = count
          /\ LET u == unique_store_ids_of(arg, 0,
                         [keys |-> <<>>, by |-> <<>>, total_imgs |-> 0])
             IN  IF u.total_imgs <= count
                 THEN /\ fn' = "store_wise_filter returned"
                      /\ result' = [select_start EXCEPT !.at = "returned",
                                                        !.value = arg]
                 ELSE /\ fn' = "store_wise_filter running"
                      /\ result' = select_start
    /\ UNCHANGED <<arg, runVars>>

\* `while num_images<count`, and past the loop `return_response =
\* [response[i] for i in indices]`
SamplerWhile ==
    /\ fn = "store_wise_filter running"
    /\ result.at = "while"
    /\ IF result.num_images < budget
       THEN /\ result' = [result EXCEPT !.at = "for"]
            /\ fn' = fn
       ELSE /\ result' = [result EXCEPT
                             !.at = "returned",
                             !.value = [j \in DOMAIN result.indices |->
                                           arg[result.indices[j] + 1]]]
            /\ fn' = "store_wise_filter returned"
    /\ UNCHANGED <<arg, budget, runVars>>

\* one pass of the for loop
SamplerPass ==
    /\ fn = "store_wise_filter running"
    /\ result.at = "for"
    /\ result' = select_pass(unique_store_ids_of(arg, 0,
                                [keys |-> <<>>, by |-> <<>>, total_imgs |-> 0]),
                             budget, result)
    /\ fn' = IF result'.at = "raised" THEN "store_wise_filter raised" ELSE fn
    /\ UNCHANGED <<arg, budget, runVars>>

SamplerNext ==
    \/ SamplerCall
    \/ SamplerWhile
    \/ SamplerPass

\* the interpreter goes on while a statement is left to run
SamplerSpec == SamplerInit /\ [][SamplerNext]_vars /\ WF_vars(SamplerNext)

\* ------------------------------------------------------------------ datasets
\* Curation.create_dataset and Curation.update_dataset called one after
\* another in one process, on the two module-level templates

\* the entries of the templates' nested objects in the order the two methods
\* assign them; of the five flags of "detection" and of "classification" the
\* first and the last are kept, the three between them being assigned by the
\* same statement on the next key
CreationFields ==
    <<"dataset.title", "dataset.curation_type", "version[0].title",
      "detection.category", "detection.sku",
      "classification.category", "classification.sku">>
UpdationFields == <<"dataset.id">> \o CreationFields

\* the key of params an entry is assigned from; the title of an update is
\* what get_dataset_name returned
ParamOf ==
    [f \in Range(UpdationFields) |->
        CASE f = "dataset.id" -> "dataset_id"
          [] f = "dataset.title" -> "dataset_title"
          [] f = "dataset.curation_type" -> "curation_type"
          [] f = "version[0].title" -> "dataset_version"
          [] f = "detection.category" -> "category"
          [] f = "detection.sku" -> "sku"
          [] f = "classification.category" -> "class_category"
          [] f = "classification.sku" -> "class_sku"]

Flags == {"detection.category", "detection.sku",
          "classification.category", "classification.sku"}

\* dummy_dataset_creation_json and dummy_dataset_updation_json: the objects
\* under "dataset", "version", "detection" and "classification", which
\* dict.copy() does not copy
dummy_dataset_creation_json ==
    [f \in Range(CreationFields) |->
        CASE f = "dataset.title" -> PyStr("New dataset 10")
          [] f = "dataset.curation_type" -> PyStr("bounding-box")
          [] f = "version[0].title" -> PyStr("Version 1")
          [] OTHER -> PyBool(FALSE)]
dummy_dataset_updation_json ==
    [f \in Range(UpdationFields) |->
        CASE f = "dataset.id" -> PyStr("-1")
          [] f = "dataset.title" -> PyStr("temp")
          [] f = "dataset.curation_type" -> PyStr("bounding-box")
          [] f = "version[0].title" -> PyStr("Version 1")
          [] OTHER -> PyBool(FALSE)]

\* a key the params of a call do not hold
NoKey == [type |-> "missing", v |-> ""]

\* the parameter bundles of the calls: two complete ones that differ in
\* every value, one without the key "sku", and one whose class_category is
\* a bool, on which change_str2bool raises
ParamBundle(n, sku, class_category) ==
    [dataset_id |-> PyStr(n), dataset_title |-> PyStr("title " \o n),
     curation_type |-> PyStr("type " \o n), dataset_version |-> PyStr("version " \o n),
     category |-> PyStr(IF n = "1" THEN "true" ELSE "False"),
     sku |-> sku,
     class_category |-> class_category,
     class_sku |-> PyStr(IF n = "1" THEN "FALSE" ELSE "true"),
     is_text |-> PyBool(n = "1")]
ParamBundles ==
    {ParamBundle("1", PyStr("True"), PyStr("other")),
     ParamBundle("2", PyStr("false"), PyStr("true")),
     ParamBundle("3", NoKey, PyStr("true")),
     ParamBundle("4", PyStr("true"), PyBool(TRUE))}

\* the right-hand side of the assignment to entry f: params[...] raises
\* KeyError on a missing key, change_str2bool is applied to the flags, and
\* the title of an update is the resolved name
assigned(f, params, name) ==
    IF f = "dataset.title" /\ name # NULL THEN Returned(PyStr(name))
    ELSE IF params[ParamOf[f]].type = "missing" THEN Raised
    ELSE IF f \in Flags THEN change_str2bool(params[ParamOf[f]])
    ELSE Returned(params[ParamOf[f]])

\* the assignments assigning only from the keys params holds
RECURSIVE assign_present(_, _, _, _, _)
assign_present(nested, fields, i, params, name) ==
    IF i > Len(fields) THEN [raised |-> FALSE, nested |-> nested]
    ELSE LET v == assigned(fields[i], params, name)
         IN  IF v.raised
             THEN assign_present(nested, fields, i + 1, params, name)
             ELSE assign_present([nested EXCEPT ![fields[i]] = v.value],
                                 fields, i + 1, params, name)

\* the assignments of a call from number i on, made on the nested objects the
\* call shares with its template; an exception leaves the call with the
\* assignments before it made
RECURSIVE assign(_, _, _, _, _)
assign(nested, fields, i, params, name) ==
    IF i > Len(fields) THEN [raised |-> FALSE, nested |-> nested]
    ELSE LET v == assigned(fields[i], params, name)
         IN  IF v.raised THEN [raised |-> TRUE, nested |-> nested]
             ELSE assign([nested EXCEPT ![fields[i]] = v.value],
                         fields, i + 1, params, name)

\* the bodies a call puts on the wire, none when it raised before: the
\* nested objects as they stand and the call's own "text"
request_body(a, params) ==
    IF a.raised THEN <<>> ELSE <<[nested |-> a.nested, text |-> params.is_text]>>

\* a process that has imported curation
AdminInit ==
    /\ OrchInit
    /\ fn = "curation"
    /\ arg = <<>>
    /\ budget = 0
    /\ result = [creation |-> dummy_dataset_creation_json,
                 updation |-> dummy_dataset_updation_json]

\* Curation.create_dataset(params); arg keeps the calls made and their bodies
CreateDataset ==
    /\ fn = "curation"
    /\ budget < MaxCalls
    /\ budget' = budget + 1
    /\ \E params \in ParamBundles :
          LET a == assign(result.creation, CreationFields, 1, params, NULL)
          IN  /\ result' = [result EXCEPT !.creation = a.nested]
              /\ arg' = Append(arg, [call |-> "create_dataset", params |-> params,
                                     name |-> NULL, json |-> request_body(a, params)])
    /\ UNCHANGED <<fn, runVars>>

\* Curation.update_dataset(params), get_dataset_name returning a title or ""
UpdateDataset ==
    /\ fn = "curation"
    /\ budget < MaxCalls
    /\ budget' = budget + 1
    /\ \E params \in ParamBundles, name \in {"", "A"} :
          LET a == assign(result.updation, UpdationFields, 1, params, name)
          IN  /\ result' = [result EXCEPT !.updation = a.nested]
              /\ arg' = Append(arg, [call |-> "update_dataset", params |-> params,
                                     name |-> name, json |-> request_body(a, params)])
    /\ UNCHANGED <<fn, runVars>>

AdminNext ==
    \/ CreateDataset
    \/ UpdateDataset

AdminSpec == AdminInit /\ [][AdminNext]_vars

\* ------------------------------------------------------------------ tasks
\* two tasks in the table "tasks", each run by a runner process of its own;
\* arg is the table, result the position of the two runners

\* .update(update_data).eq(column, value).execute()
table_update(table, column, value, update_data) ==
    [k \in DOMAIN table |->
        IF table[k][column] = value THEN SqlUpdate(table[k], update_data)
        ELSE table[k]]

\* .select("status").eq(column, value).execute(): response.data
table_select(table, column, value) ==
    SelectSeq(table, LAMBDA r : r[column] = value)

\* update_task_status selecting the rows of the task's dataset and version
update_task_status_by_dataset(table, task_id, status, kwargs) ==
    LET own == table_select(table, "task_id", task_id)[1]
    IN  [k \in DOMAIN table |->
            IF /\ table[k].dataset_id = own.dataset_id
               /\ table[k].version_name = own.version_name
            THEN SqlUpdate(table[k], [status |-> status] @@ kwargs)
            ELSE table[k]]

\* task_runner.update_task_status on the table
update_task_status_in(table, task_id, status, kwargs) ==
    table_update(table, "task_id", task_id, [status |-> status] @@ kwargs)

\* task_runner.is_task_cancelled on the table
is_task_cancelled_in(table, task_id) ==
    LET data == table_select(table, "task_id", task_id)
    IN  data # <<>> /\ data[1].status = "cancelled"

\* streamlit.cancel_task on the table
cancel_task_in(table, task_id) ==
    table_update(table, "task_id", task_id,
                 ui_update_data(1, "cancelled", CancelMsg, <<>>))

\* create_task_in_db: the row of a new task; a task for a dataset and
\* version another queued task names is inserted all the same
task_row(task_id, dataset_id, version_name) ==
    [task_id |-> task_id, dataset_id |-> dataset_id, version_name |-> version_name]
    @@ create_task_in_db

TaskIds == <<"t1", "t2">>

\* two tasks created, for the same dataset and version or for two datasets,
\* and their runners launched
TasksInit ==
    /\ OrchInit
    /\ fn = "tasks"
    /\ \E d \in {"d1", "d2"} :
          arg = <<task_row("t1", "d1", "v1"), task_row("t2", d, "v1")>>
    /\ budget = 0
    /\ result = [k \in DOMAIN TaskIds |-> [pc |-> "start", polls |-> 0]]

\* execute_task of runner k, "Mark as started"
TaskMarkStarted(k) ==
    /\ result[k].pc = "start"
    /\ arg' = update_task_status_in(arg, TaskIds[k], "started", [started_at |-> 1])
    /\ result' = [result EXCEPT ![k].pc = "poll"]
    /\ UNCHANGED <<fn, budget, runVars>>

\* a cancellation poll of runner k: its pipeline goes on, or it returns
TaskPoll(k) ==
    /\ result[k].pc = "poll"
    /\ result' = [result EXCEPT
                     ![k].pc = IF is_task_cancelled_in(arg, TaskIds[k])
                               THEN "stopped" ELSE "work",
                     ![k].polls = @ + 1]
    /\ UNCHANGED <<fn, arg, budget, runVars>>

\* the pipeline of runner k between two store calls: on to the next poll, or
\* to one of the closing writes
TaskWork(k) ==
    /\ result[k].pc = "work"
    /\ \/ /\ result[k].polls < MaxTaskPolls
          /\ result' = [result EXCEPT ![k].pc = "poll"]
       \/ result' = [result EXCEPT ![k].pc = "closing"]
    /\ UNCHANGED <<fn, arg, budget, runVars>>

\* the closing write of runner k, "Mark as completed" or one of the writes
\* of failed
TaskClose(k) ==
    /\ result[k].pc = "closing"
    /\ \/ arg' = update_task_status_in(arg, TaskIds[k], "completed",
                    [completed_at |-> 1, result_summary |-> <<"summary">>])
       \/ arg' = update_task_status_in(arg, TaskIds[k], "failed",
                    [completed_at |-> 1, error_message |-> ExcMsg])
    /\ result' = [result EXCEPT ![k].pc = "done"]
    /\ UNCHANGED <<fn, budget, runVars>>

\* cancel_task of the dashboard for task k
TaskCancel(k) ==
    /\ budget < MaxCancels
    /\ budget' = budget + 1
    /\ arg' = cancel_task_in(arg, TaskIds[k])
    /\ UNCHANGED <<fn, result, runVars>>

TasksNext ==
    \E k \in DOMAIN TaskIds :
        \/ TaskMarkStarted(k)
        \/ TaskPoll(k)
        \/ TaskWork(k)
        \/ TaskClose(k)
        \/ TaskCancel(k)

TasksSpec == TasksInit /\ [][TasksNext]_vars

\* ------------------------------------------------------------------ claims
RunnerWrites == SelectSeq(writes, LAMBDA w : w.by = "runner")

\* the last write execute_task issued
LastRunnerWrite == RunnerWrites[Len(RunnerWrites)]

\* the last write to the row is the runner's, and the store took it
RunnerWriteStands ==
    /\ writes # <<>>
    /\ writes[Len(writes)].by = "runner"
    /\ writes[Len(writes)].ok

Ids(log) == [i \in DOMAIN log |-> log[i][1]]

LegalTransitions ==
    {<<"queued", "started">>, <<"started", "completed">>,
     <<"started", "failed">>, <<"started", "cancelled">>}

\* C1: every change of the persisted status, by the runner or by a canceller,
\* is queued -> started, started -> completed, started -> failed or
\* started -> cancelled.
C1_OnlyLegalTransitions ==
    \A i \in DOMAIN writes :
        writes[i].before # writes[i].after
            => <<writes[i].before, writes[i].after>> \in LegalTransitions

\* C2: a write that finds the row in a terminal status leaves that status.
C2_TerminalIsFinal ==
    \A i \in DOMAIN writes :
        writes[i].before \in Terminal => writes[i].after = writes[i].before

\* C3: when the row is flipped to cancelled while still queued (the first
\* write to the row is the canceller's) and the store is healthy, no session
\* listing is issued and the run ends with status cancelled.
C3_CancelWhileQueuedIsObserved ==
    (/\ writes # <<>>
     /\ writes[1].by = "canceller"
     /\ writes[1].before = "queued"
     /\ storeFaults = 0)
        => /\ listings = 0
           /\ (pc = "done" => rec.status = "cancelled")

\* C4: from the moment a cancellation poll returned True, the runner issues
\* no listing, no output fetch, no dataset-name lookup, no upload and no
\* write: its own state is frozen, and every later change of the row is a
\* write of the canceller.
C4_NoWorkAfterObservedCancel ==
    [][observed =>
          /\ UNCHANGED <<orchVars, listings, fetchLog, nameLookups, uploadLog, pollCount>>
          /\ (writes' # writes => writes'[Len(writes')].by = "canceller")
          /\ (rec' # rec => writes' # writes)]_vars

\* C4 happens: the poll before item 10 of stage 2 saw the cancellation, ten
\* fetches were made, none after it, and the row is as the canceller left it.
C4_Witness ==
    /\ observed
    /\ pc = "done"
    /\ Len(fetchLog) = PollEvery
    /\ uploadLog = <<>>
    /\ rec.status = "cancelled"
    /\ rec.error_message = CancelMsg
    /\ rec.result_summary = <<>>

\* C5: when a cancellation is persisted after the session listing has
\* returned and before stage 2 has completed (store healthy, no exception),
\* the run ends with status cancelled and without a result summary.
C5_CancelDuringDownloadEndsCancelled ==
    (/\ \E i \in DOMAIN writes :
            writes[i].by = "canceller" /\ writes[i].phase = "download"
     /\ storeFaults = 0
     /\ raised = "none"
     /\ pc = "done")
        => /\ rec.status = "cancelled"
           /\ rec.result_summary = <<>>

\* C6: status writes are unconditional: every write the store takes leaves
\* the row in the status written, whatever the status it finds.
C6_StatusWritesUnconditional ==
    \A i \in DOMAIN writes :
        writes[i].ok => writes[i].after = writes[i].data.status

\* C6 happens: a cancellation persisted after the runner's last poll is
\* replaced by the runner's next write, completed or failed, and the run ends
\* so, with every store call having succeeded.
C6_Witness ==
    /\ pc = "done"
    /\ storeFaults = 0
    /\ rec.status \in {"completed", "failed"}
    /\ \E i \in DOMAIN writes :
          /\ i > 1
          /\ writes[i - 1].by = "canceller"
          /\ writes[i].by = "runner"
          /\ writes[i].before = "cancelled"
          /\ writes[i].after \in {"completed", "failed"}
          /\ writes[i - 1].polls = writes[i].polls
          /\ writes[i].polls >= 3

\* C7: when the listing returns no session (and no poll saw a cancellation),
\* nothing is fetched, looked up or uploaded, and the runner's closing write
\* sets failed with the no-sessions message and a completion time; the row
\* holds them when the store took the write and no canceller wrote after it.
C7_ZeroCandidatesFail ==
    (listings = 1 /\ raised = "none" /\ all_sessions = <<>>)
        => /\ fetchLog = <<>>
           /\ nameLookups = 0
           /\ uploadLog = <<>>
           /\ (pc = "done" /\ ~observed)
                => /\ LastRunnerWrite.data.status = "failed"
                   /\ LastRunnerWrite.data.error_message = NoSessionsMsg
                   /\ LastRunnerWrite.data.completed_at > 0
                   /\ (LastRunnerWrite.ok => LastRunnerWrite.after = "failed")
                   /\ RunnerWriteStands
                        => /\ rec.status = "failed"
                           /\ rec.error_message = NoSessionsMsg
                           /\ rec.completed_at = LastRunnerWrite.data.completed_at
                           /\ rec.result_summary = <<>>

\* C7 happens: an empty listing, and the task failed with the message.
C7_Witness ==
    /\ listings = 1
    /\ raised = "none"
    /\ all_sessions = <<>>
    /\ pc = "done"
    /\ ~observed
    /\ rec.status = "failed"
    /\ rec.error_message = NoSessionsMsg
    /\ rec.completed_at > 0

\* stage 2 has fetched every session and got no document
Stage2Empty ==
    /\ sampled_sessions # <<>>
    /\ Len(fetchLog) = Len(sampled_sessions)
    /\ responses = <<>>

\* C8: when stage 2 ends without a document, no dataset name is looked up and
\* no upload is made, and the runner's closing write sets failed with the
\* no-responses message; the row holds it when the store took the write and
\* no canceller wrote after it.
C8_ZeroDocumentsFail ==
    Stage2Empty
        => /\ nameLookups = 0
           /\ uploadLog = <<>>
           /\ pc \in {"no_responses", "done"}
           /\ pc = "done"
                => /\ LastRunnerWrite.data.status = "failed"
                   /\ LastRunnerWrite.data.error_message = NoResponsesMsg
                   /\ (LastRunnerWrite.ok => LastRunnerWrite.after = "failed")
                   /\ RunnerWriteStands
                        => /\ rec.status = "failed"
                           /\ rec.error_message = NoResponsesMsg

\* C8 happens: two sessions, both fetches without a document, task failed.
C8_Witness ==
    /\ Stage2Empty
    /\ Len(sampled_sessions) = 2
    /\ pc = "done"
    /\ rec.status = "failed"
    /\ rec.error_message = NoResponsesMsg

\* C9: when stage 2 yielded a document, no poll saw a cancellation and the
\* set-up of stage 3 (the arguments of upload_to_curation,
\* Curation.add_variables) did not raise, the finished run has posted every
\* document, once and in order, and its closing write sets completed; the
\* row holds completed when the store took the write and no canceller wrote
\* after it.
C9_UploadAlwaysCompletes ==
    (pc = "done" /\ responses # <<>> /\ ~observed
       /\ raised \notin {"add_variables", "params"})
        => /\ Ids(uploadLog) = responses
           /\ LastRunnerWrite.data.status = "completed"
           /\ (LastRunnerWrite.ok => LastRunnerWrite.after = "completed")
           /\ RunnerWriteStands
                => /\ rec.status = "completed"
                   /\ rec.result_summary # <<>>

\* C9 happens: every upload of a run with two documents raised, and the task
\* is completed.
C9_Witness ==
    /\ pc = "done"
    /\ Len(responses) = 2
    /\ Len(uploadLog) = 2
    /\ Count(uploadLog, "raised") = 2
    /\ success_count = 0
    /\ rec.status = "completed"

\* the counts of a summary: its keys that do not echo a parameter
CountKeys(summary) == DOMAIN summary \ {"dataset_id", "version_name", "client_id"}

C11_ExceptionsCaught ==
    /\ pc # "escaped"
    /\ (raised # "none" /\ pc = "done")
         => /\ RunnerWrites # <<>>
            /\ LastRunnerWrite.data.status = "failed"
            /\ LastRunnerWrite.data.error_message = ExcMsg
            /\ LastRunnerWrite.data.completed_at > 0
            /\ (LastRunnerWrite.ok => LastRunnerWrite.after = "failed")
            /\ RunnerWriteStands
                 => /\ rec.status = "failed"
                    /\ rec.error_message = ExcMsg
                    /\ rec.completed_at > 0

\* C11 happens: the dataset-name resolution raised after two documents were
\* downloaded, and the task is failed with the exception's message.
C11_Witness ==
    /\ raised = "add_variables"
    /\ Len(responses) = 2
    /\ pc = "done"
    /\ rec.status = "failed"
    /\ rec.error_message = ExcMsg

\* the runner process has ended: main exited on a parameter file it could
\* not load, or execute_task returned and the clean-up was attempted
Terminated ==
    \/ pc = "exit1"
    \/ pc = "done" /\ params_file # "present"

\* the closing write of a completed pipeline was issued
PipelineCompleted ==
    \E i \in DOMAIN writes :
        writes[i].by = "runner" /\ writes[i].data.status = "completed"

\* C12 as stated: a runner process that has ended without completing the
\* pipeline, in a run without any cancellation, leaves the record failed
\* with a non-empty error message, never queued or started.
C12_NoSilentFailure ==
    (Terminated /\ ~PipelineCompleted /\ cancels = 0)
        => /\ rec.status = "failed"
           /\ rec.error_message \notin {NULL, ""}

\* C13 as stated: when the runner process has ended, on any path, the
\* parameter file has been removed.
C13_ParamsFileRemoved ==
    Terminated => params_file = "removed"

\* positions of session id `id` in a list of session records
Occurrences(list, id) == {i \in DOMAIN list : list[i].session_id = id}

\* first position of a session id that occurs in the list
FirstOccurrence(list, id) ==
    CHOOSE i \in Occurrences(list, id) : \A j \in Occurrences(list, id) : i <= j

\* C14: the de-duplicated list holds every session id of the input exactly
\* once and no other, each kept record is the input's first record with that
\* id, and the kept records stand in the order of those first occurrences.
C14_DedupFirstSeen ==
    fn = "remove_duplicates"
        => /\ \A i \in DOMAIN arg :
                Cardinality(Occurrences(result, arg[i].session_id)) = 1
           /\ \A k \in DOMAIN result :
                /\ Occurrences(arg, result[k].session_id) # {}
                /\ result[k] = arg[FirstOccurrence(arg, result[k].session_id)]
           /\ \A k, l \in DOMAIN result :
                k < l => FirstOccurrence(arg, result[k].session_id)
                           < FirstOccurrence(arg, result[l].session_id)

\* C14 happens: a list of four records in which the first id comes back as
\* the third record with another store, and two records are kept.
C14_Witness ==
    /\ fn = "remove_duplicates"
    /\ Len(arg) = 4
    /\ arg[3].session_id = arg[1].session_id
    /\ arg[3] # arg[1]
    /\ Len(result) = 2
    /\ result[1] = arg[1]

\* C15 as stated: no session id is fetched more than once within a run.
C15_NoSessionFetchedTwice ==
    \A i, j \in DOMAIN fetchLog :
        i # j => fetchLog[i][1] # fetchLog[j][1]

\* the records behind the session ids of a run: one image each, one store,
\* one category
ListedRecords(ids) == [i \in DOMAIN ids |-> SessionRecord(ids[i], "s1", 1)]

\* the Sampler applied to the de-duplicated list with the run's budget
SamplerOutput(ids) ==
    LET out == store_and_category_wise_filter(
                   filtered_data_of(ListedRecords(ids)),
                   "c1" :> <<"c1", SamplePerChannel>>)
    IN  [k \in DOMAIN out |-> out[k].session_id]

\* C16 as stated, for a listing without duplicates: the list handed to
\* stage 2 is the Sampler's output for the budget sample_per_channel.
C16_SampledListHandedOn ==
    (pc \in {"dl_poll", "dl_fetch"}
       /\ Cardinality(Range(all_sessions)) = Len(all_sessions))
        => sampled_sessions = SamplerOutput(all_sessions)

\* C17: a group whose images sum to at most the budget comes back from
\* store_wise_filter as it went in: the same sessions in the same order.
C17_SmallGroupUnchanged ==
    (fn = "store_wise_filter" /\ TotalImages(arg) <= budget)
        => result = arg

\* C17 happens: three sessions of two stores whose images sum to exactly the
\* budget are returned unchanged.
C17_Witness ==
    /\ fn = "store_wise_filter"
    /\ Len(arg) = 3
    /\ arg[1].store_id # arg[2].store_id
    /\ budget > 0
    /\ TotalImages(arg) = budget
    /\ result = arg

\* C18: for a group whose images sum to more than the budget, the images of
\* the sessions store_wise_filter returns sum to at least the budget.
C18_LargeGroupFillsBudget ==
    (fn = "store_wise_filter" /\ TotalImages(arg) > budget)
        => TotalImages(result) >= budget

\* C18 happens: from an over-budget group a proper part is returned, whose
\* images sum to more than the budget.
C18_Witness ==
    /\ fn = "store_wise_filter"
    /\ TotalImages(arg) > budget
    /\ budget >= 2
    /\ Len(result) >= 2
    /\ Len(result) < Len(arg)
    /\ TotalImages(result) > budget

\* the session ids of a list are pairwise different
DistinctIds(list) ==
    \A i, j \in DOMAIN list : i # j => list[i].session_id # list[j].session_id

\* number of sessions of store `store` in a list
StoreSize(list, store) == Cardinality({i \in DOMAIN list : list[i].store_id = store})

\* session number p of a list is the Rank-th session of its store
Rank(list, p) ==
    Cardinality({q \in 1..p : list[q].store_id = list[p].store_id})

\* place in the input of the session returned at place m
Place(m) == FirstOccurrence(arg, result[m].session_id)

\* C19: in what store_wise_filter returns for an over-budget group, read in
\* selection order, no session is returned twice, and the k-th session of a
\* store (k >= 2) comes only after the (k-1)-th session of every store that
\* has that many, its own store included: no store gives a second session
\* before every store has given its first, and each store's selected
\* sessions are its first ones in input order.
C19_StoreDiversity ==
    (fn = "store_wise_filter" /\ TotalImages(arg) > budget /\ DistinctIds(arg))
        => /\ DistinctIds(result)
           /\ \A m \in DOMAIN result :
                /\ Occurrences(arg, result[m].session_id) # {}
                /\ result[m] = arg[Place(m)]
                /\ \A store \in {arg[i].store_id : i \in DOMAIN arg} :
                     (Rank(arg, Place(m)) >= 2
                        /\ StoreSize(arg, store) >= Rank(arg, Place(m)) - 1)
                       => \E l \in 1..(m - 1) :
                            /\ result[l].store_id = store
                            /\ Rank(arg, Place(l)) = Rank(arg, Place(m)) - 1

\* C19 happens: the group opens with two sessions of one store; that store
\* gives its first session, another store its first, and only then the first
\* store its second.
C19_Witness ==
    /\ fn = "store_wise_filter"
    /\ TotalImages(arg) > budget
    /\ DistinctIds(arg)
    /\ Len(result) >= 3
    /\ result[1].store_id # result[2].store_id
    /\ result[3].store_id = result[1].store_id
    /\ arg[1].store_id = arg[2].store_id

\* C20: fetch_output_from_ai_controller returns to its caller whatever the
\* two answers are, and it returns a document only if the pointer request
\* went through with a status below 400, the first element of its array
\* carries the pointer, the second GET went through with a body that is
\* JSON, and that document's status is "success" (the document returned is
\* that one); for every other pair of answers it returns None.
C20_FetchNeverRaises ==
    fn = "fetch_output_from_ai_controller"
        => /\ ~result.raised
           /\ result.value # NULL
                => /\ arg[1].transport = "ok"
                   /\ arg[1].code < 400
                   /\ arg[1].body \in {"[{output: null}]", "[{output: url}]"}
                   /\ arg[2].transport = "ok"
                   /\ arg[2].body # "not json"
                   /\ arg[2].body = "{status: success}"
                   /\ result.value = arg[2].body

\* C20 happens: both requests are answered with 200, the document says
\* success, and it is returned.
C20_Witness ==
    /\ fn = "fetch_output_from_ai_controller"
    /\ arg[1].code = 200
    /\ arg[2].code = 200
    /\ ~result.raised
    /\ result.value = "{status: success}"

\* the session ids of the log entries with outcome `out`, in log order
IdsWith(log, out) == Ids(SelectSeq(log, LAMBDA e : e[2] = out))

\* execute_task stands behind a download_responses that returned its list
DownloadReturned ==
    pc \in {"no_responses", "up_init", "up_poll", "up_post", "summarize"}

\* C21: download_responses fetches the sessions of its list one by one in
\* list order, each once: the fetches issued are always an initial part of
\* the list, the documents held are those of the successful fetches in that
\* order, and failed_count counts the others; when it has returned its list
\* (no poll saw a cancellation) every session of the list was fetched, so
\* failures and documents add up to the length of the list.
C21_EveryIdFetchedOnce ==
    /\ Len(fetchLog) <= Len(sampled_sessions)
    /\ Ids(fetchLog) = SubSeq(sampled_sessions, 1, Len(fetchLog))
    /\ responses = IdsWith(fetchLog, TRUE)
    /\ failed_count = Len(IdsWith(fetchLog, FALSE))
    /\ DownloadReturned
         => /\ Ids(fetchLog) = sampled_sessions
            /\ failed_count + Len(responses) = Len(sampled_sessions)

\* C21 happens: of three sessions the second has no document; the third is
\* fetched all the same and two documents are returned.
C21_Witness ==
    /\ pc = "up_init"
    /\ Len(sampled_sessions) = 3
    /\ Len(fetchLog) = 3
    /\ ~fetchLog[2][2]
    /\ responses = <<sampled_sessions[1], sampled_sessions[3]>>
    /\ failed_count = 1

\* C22: upload_to_curation posts the documents of stage 2 one by one in their
\* order, each once: the uploads issued are always an initial part of the
\* document list; an upload that raised puts its session id on the failed
\* list and every other one counts as a success; no exception reaches
\* execute_task once an upload was issued; and when the loop has run to its
\* end (no poll saw a cancellation) every document was posted.
C22_EveryDocumentPostedOnce ==
    /\ Len(uploadLog) <= Len(responses)
    /\ Ids(uploadLog) = SubSeq(responses, 1, Len(uploadLog))
    /\ failed_sessions = IdsWith(uploadLog, "raised")
    /\ success_count = Len(uploadLog) - Len(failed_sessions)
    /\ uploadLog # <<>> => (raised = "none" /\ pc \notin {"except", "escaped"})
    /\ (pc = "summarize" \/ PipelineCompleted) => Ids(uploadLog) = responses

\* C22 happens: of three documents the upload of the second raised; its
\* session is on the failed list and the third was posted all the same.
C22_Witness ==
    /\ pc = "summarize"
    /\ Len(responses) = 3
    /\ Len(uploadLog) = 3
    /\ uploadLog[2][2] = "raised"
    /\ uploadLog[3][2] = "accepted"
    /\ failed_sessions = <<responses[2]>>
    /\ success_count = 2

\* C23 as stated: an upload counts as successful only if the curation
\* platform accepted the document.
C23_OnlyAcceptedCountAsUploaded ==
    success_count = Len(IdsWith(uploadLog, "accepted"))

\* lists laid end to end
RECURSIVE Flatten(_)
Flatten(posts) ==
    IF posts = <<>> THEN <<>> ELSE posts[1] \o Flatten(Tail(posts))

\* the combinations of three lists, the first list's members outermost and
\* the last list's innermost
CategoryMajor(categories, photo_types, channels) ==
    Flatten([i \in DOMAIN categories |->
        Flatten([j \in DOMAIN photo_types |->
            [k \in DOMAIN channels |->
                <<categories[i], photo_types[j], channels[k]>>]])])

\* number of pages of a combination served before its first fault
PagesBeforeFault(replies) ==
    IF \A j \in DOMAIN replies : replies[j] = "page" THEN Len(replies)
    ELSE (CHOOSE j \in DOMAIN replies :
            /\ replies[j] # "page"
            /\ \A i \in 1..(j - 1) : replies[i] = "page") - 1

\* the records of combination c collected before its first fault
CollectedBeforeFault(replies, c) ==
    [j \in 1..PagesBeforeFault(replies) |-> PageRecord(c, j)]

\* C24 as stated: whatever fault ends the paging of a combination, the
\* traversal raises nothing and returns, for every combination in turn, the
\* records collected before its fault.
C24_FaultOnlyTruncatesCombination ==
    fn = "get_combinations"
        => /\ ~result.raised
           /\ LET t == CategoryMajor(arg.categories, arg.photo_types, arg.channels)
              IN  result.value =
                     Flatten([c \in DOMAIN t |->
                                 CollectedBeforeFault(arg.replies[t[c]], t[c])])

\* C25 as stated: change_str2bool raises for no input; it returns True for
\* the string "true" in any letter case, False for "false" in any letter
\* case, and the input itself for every other value, a boolean included.
C25_CoercionTotal ==
    fn = "change_str2bool"
        => /\ ~result.raised
           /\ result.value =
                IF arg.type = "str" /\ lower(arg.v) = "true" THEN PyBool(TRUE)
                ELSE IF arg.type = "str" /\ lower(arg.v) = "false" THEN PyBool(FALSE)
                ELSE arg

\* C26: while add_labels runs, the rows read so far are, in input order and
\* each once, the rows of the POSTs made followed by the rows accumulated;
\* never more than 490 are accumulated or posted at once; every POST made
\* inside the loop carries exactly 490 rows; and when add_labels returns,
\* after its closing POST, the POSTs laid end to end are the input.
C26_LabelBatches ==
    fn \in {"add_labels", "add_labels returned"}
        => /\ Len(result.bucket) <= FlushAt
           /\ \A k \in DOMAIN result.posts : Len(result.posts[k]) <= FlushAt
           /\ fn = "add_labels"
                => /\ Flatten(result.posts) \o result.bucket
                        = [i \in 1..result.row |-> i]
                   /\ \A k \in DOMAIN result.posts : Len(result.posts[k]) = FlushAt
           /\ fn = "add_labels returned"
                => /\ Flatten(result.posts) = [i \in 1..arg |-> i]
                   /\ \A k \in 1..(Len(result.posts) - 1) :
                        Len(result.posts[k]) = FlushAt

\* C26 happens: 981 rows were sent in three POSTs of 490, 490 and 1 rows.
C26_Witness ==
    /\ fn = "add_labels returned"
    /\ arg = 2 * FlushAt + 1
    /\ Len(result.posts) = 3
    /\ Len(result.posts[1]) = FlushAt
    /\ Len(result.posts[2]) = FlushAt
    /\ result.posts[3] = <<arg>>

\* the entries listed before the first fault of a walk, page after page
RECURSIVE ListedBeforeFault(_)
ListedBeforeFault(replies) ==
    IF replies = <<>> \/ replies[1].kind # "page" THEN <<>>
    ELSE replies[1].results \o ListedBeforeFault(Tail(replies))

\* C27: get_dataset_name raises for no sequence of answers; when an entry
\* listed before the first fault carries the configured id it returns the
\* title of the first such entry, and "" otherwise; a second resolution
\* against the same answers returns the same name; and the body of an
\* upload carries the resolved name, the empty one included.
C27_DatasetNameResolution ==
    fn = "get_dataset_name"
        => LET listed == ListedBeforeFault(arg.replies)
               matches == {k \in DOMAIN listed : listed[k].id = arg.dataset_id}
           IN  /\ ~result.raised
               /\ matches # {}
                    => \E k \in matches :
                         /\ \A l \in matches : k <= l
                         /\ result.value = listed[k].title
               /\ matches = {} => result.value = ""
               /\ result.again = Returned(result.value)
               /\ result.data.dataset = result.value

\* C27 happens: the first page lists another dataset, the request for the
\* second page fails, and the name resolves to "" although nothing raised.
C27_Witness ==
    /\ fn = "get_dataset_name"
    /\ Len(arg.replies) = 2
    /\ arg.replies[1] = DatasetPage(<<Dataset(5, "B")>>)
    /\ arg.replies[2].kind = "ConnectionError"
    /\ ~result.raised
    /\ result.value = ""
    /\ result.data.dataset = ""

\* C28: an output fetch is issued only when the one session listing of the
\* run has returned and its whole list was handed to stage 2; the
\* dataset-name lookup and the uploads are issued only when every session of
\* that list was fetched; and the documents uploaded are, in the order of
\* the stage-1 list, the sessions whose fetch gave a document.
C28_StagesInOrder ==
    /\ fetchLog # <<>>
         => /\ listings = 1
            /\ sampled_sessions = all_sessions
            /\ Ids(fetchLog) = SubSeq(all_sessions, 1, Len(fetchLog))
    /\ (nameLookups > 0 \/ uploadLog # <<>>)
         => /\ Len(fetchLog) = Len(all_sessions)
            /\ nameLookups = 1
    /\ Ids(uploadLog) = SubSeq(IdsWith(fetchLog, TRUE), 1, Len(uploadLog))

\* C28 happens: of three listed sessions the first gave no document, and the
\* second and the third were uploaded in that order after the third fetch.
C28_Witness ==
    /\ Len(all_sessions) = 3
    /\ Len(fetchLog) = 3
    /\ ~fetchLog[1][2]
    /\ Ids(uploadLog) = <<all_sessions[2], all_sessions[3]>>

StagePolls(n) == (n + PollEvery - 1) \div PollEvery

\* per-item operations (output fetches and uploads) made so far
Ops == Len(fetchLog) + Len(uploadLog)

\* per-item operations made when poll number p of a run was made: the polls
\* before the listing and after it, then those of stage 2, then those of
\* stage 3, which starts when every session was fetched
OpsAtPoll(p) ==
    LET n == Len(sampled_sessions) IN
    IF p <= 2 THEN 0
    ELSE IF p <= 2 + StagePolls(n) THEN PollEvery * (p - 3)
    ELSE n + PollEvery * (p - 3 - StagePolls(n))

\* C30: the runner is about to fetch or upload item i of its stage exactly
\* when it has polled i \div 10 + 1 times in that stage, that is before the
\* items 0, 10, 20, ... and at no other place; so with a healthy store at
\* most 10 fetches and uploads are made after the poll that preceded a
\* cancellation written in stage 2 or 3, hence at most 10 after that
\* cancellation was persisted.
C30_PollEveryTenItems ==
    /\ pc = "dl_fetch" => pollCount = 2 + idx \div PollEvery + 1
    /\ pc = "dl_poll" => (idx % PollEvery = 0 /\ pollCount = 2 + idx \div PollEvery)
    /\ pc = "up_post"
         => pollCount = 2 + StagePolls(Len(sampled_sessions)) + idx \div PollEvery + 1
    /\ pc = "up_poll"
         => /\ idx % PollEvery = 0
            /\ pollCount = 2 + StagePolls(Len(sampled_sessions)) + idx \div PollEvery
    /\ \A i \in DOMAIN writes :
          (/\ writes[i].by = "canceller"
           /\ writes[i].phase \in {"download", "upload"}
           /\ storeFaults = 0)
              => Ops - OpsAtPoll(writes[i].polls) <= PollEvery

\* C30 happens: a cancellation was persisted right after the poll before
\* item 0 of stage 2; ten fetches followed, and the poll before item 10
\* stopped the runner.
C30_Witness ==
    /\ \E i \in DOMAIN writes :
          /\ writes[i].by = "canceller"
          /\ writes[i].phase = "download"
          /\ writes[i].polls = 3
    /\ storeFaults = 0
    /\ Len(fetchLog) = PollEvery
    /\ pollCount = 4
    /\ observed
    /\ pc = "done"

\* the pc values the runner reaches when a poll has returned False
AfterPoll == {"stage1", "no_sessions", "dl_poll", "dl_fetch", "up_post"}

\* C31: a cancellation poll whose read of the row fails returns False: the
\* runner goes on with the pipeline and has not seen a cancellation at that
\* poll, whatever the row holds, a persisted cancellation included.
C31_FailedReadIsNotCancelled ==
    [][(pollCount' = pollCount + 1 /\ storeFaults' = storeFaults + 1)
          => /\ pc' \in AfterPoll
             /\ observed' = observed]_vars

\* C31 happens: the row was cancelled during stage 2, the runner has polled
\* since, the read failed, and the runner is about to fetch the next output.
C31_Witness ==
    /\ \E i \in DOMAIN writes :
          /\ writes[i].by = "canceller"
          /\ writes[i].ok
          /\ writes[i].phase = "download"
          /\ pollCount > writes[i].polls
    /\ rec.status = "cancelled"
    /\ storeFaults > 0
    /\ ~observed
    /\ pc = "dl_fetch"

\* C32: the row is consistent in every reachable state: completed comes with
\* a result summary and no error message, failed with an error message and
\* no result summary, cancelled with no result summary, and completed_at is
\* set exactly when the status is terminal.
C32_RecordConsistent ==
    /\ rec.status = "completed"
         => (rec.result_summary # <<>> /\ rec.error_message = NULL)
    /\ rec.status = "failed"
         => (rec.error_message # NULL /\ rec.result_summary = <<>>)
    /\ rec.status = "cancelled" => rec.result_summary = <<>>
    /\ (rec.completed_at # 0) <=> (rec.status \in Terminal)

\* the summaries the runner has written with status completed
CompletedSummaries ==
    {writes[i].data.result_summary[1] :
        i \in {j \in DOMAIN writes : /\ writes[j].by = "runner"
                                     /\ writes[j].data.status = "completed"}}

\* C33: in the summary of every run that reaches completed, the uploads that
\* succeeded and those that failed add up to the downloaded documents, at
\* least one document and at most one per listed session was downloaded, and
\* the downloaded documents are the listed sessions less the output fetches
\* that gave no document.
C33_CountsConsistent ==
    \A s \in CompletedSummaries :
        /\ s.uploaded_successfully + s.failed_uploads = s.downloaded_responses
        /\ 1 <= s.downloaded_responses
        /\ s.downloaded_responses <= s.total_sessions
        /\ s.downloaded_responses
              = s.total_sessions - Len(IdsWith(fetchLog, FALSE))

\* C33 happens: a completed run of three sessions with one output fetch and
\* one upload that failed.
C33_Witness ==
    \E s \in CompletedSummaries :
        /\ s.total_sessions = 3
        /\ s.downloaded_responses = 2
        /\ s.uploaded_successfully = 1
        /\ s.failed_uploads = 1

\* C34: store_wise_filter returns for every group and every budget: it
\* never raises, a store without a session for the round included, and its
\* round-robin loop ends.
C34_SamplerTerminates ==
    /\ [](fn # "store_wise_filter raised")
    /\ <>(fn = "store_wise_filter returned")

\* C34 happens: the first store of the group had one session and the second
\* one two; in the second round the first store was passed over, the second
\* gave its second session, and the function returned the three sessions.
C34_Witness ==
    /\ fn = "store_wise_filter returned"
    /\ Len(arg) = 3
    /\ arg[1].store_id # arg[2].store_id
    /\ arg[2].store_id = arg[3].store_id
    /\ result.iter_ = 2
    /\ result.indices = <<0, 1, 2>>
    /\ result.value = arg

\* C35: on an over-budget group store_wise_filter selects no session once
\* the accumulated image count has reached the budget: the sessions returned
\* without the last one selected total strictly less than the budget.
C35_NoSelectionAtBudget ==
    (fn = "store_wise_filter returned" /\ result.indices # <<>>)
        => TotalImages(SubSeq(result.value, 1, Len(result.value) - 1)) < budget

\* the first answer of a combination that is not a page with the URL of a
\* following page, or the last answer
EndOfPaging(replies) ==
    IF \A j \in DOMAIN replies : replies[j] = "page" THEN Len(replies)
    ELSE CHOOSE j \in DOMAIN replies :
            /\ replies[j] # "page"
            /\ \A i \in 1..(j - 1) : replies[i] = "page"

\* C36: when the session source answers every request of a combination with
\* a page, get_processed_session returns the records of the pages from the
\* first one to the first one whose "next" is null, empty or missing, that
\* page included, in page order and each once; a page behind that one is
\* not read.
C36_PagingFollowsCursor ==
    (/\ fn = "get_processed_session"
     /\ arg[EndOfPaging(arg)] \notin PageFaults)
        => /\ ~result.raised
           /\ result.value =
                 [j \in 1..EndOfPaging(arg) |-> PageRecord(<<"cat1", "pt1", "ch1">>, j)]

\* C36 happens: the first page named a second one, the second one carried
\* no "next", and the records of both were returned.
C36_Witness ==
    /\ fn = "get_processed_session"
    /\ arg = <<"page", "page, no next">>
    /\ Len(result.value) = 2

\* C37 as stated: get_combinations asks for every triple of the three sets
\* once, and all_sessions is what the combinations returned, laid end to end
\* category by category, then photo type by photo type, then channel by
\* channel.
C37_FullProductInOrder ==
    fn = "get_combinations"
        => /\ ~result.raised
           /\ LET t == CategoryMajor(arg.categories, arg.photo_types, arg.channels)
              IN  result.value =
                     Flatten([c \in DOMAIN t |->
                        get_processed_session(arg.replies[t[c]], t[c], 1, <<>>).value])

\* what the parameters of a call alone make of entry f
OwnValue(f, c) ==
    IF f = "dataset.title" /\ c.call = "update_dataset" THEN PyStr(c.name)
    ELSE IF f \in Flags
         THEN (IF lower(c.params[ParamOf[f]].v) = "true" THEN PyBool(TRUE)
               ELSE IF lower(c.params[ParamOf[f]].v) = "false" THEN PyBool(FALSE)
               ELSE c.params[ParamOf[f]])
         ELSE c.params[ParamOf[f]]

\* C38: in every sequence of create_dataset and update_dataset calls, the
\* body a call sends holds in every entry the value of that call's own
\* parameter (for the title of an update, the resolved name): nothing an
\* earlier call wrote into the shared template is left in it.
C38_BodyFromOwnParameters ==
    fn = "curation"
        => \A i \in DOMAIN arg :
              arg[i].json # <<>>
                 => /\ \A f \in DOMAIN arg[i].json[1].nested :
                          arg[i].json[1].nested[f] = OwnValue(f, arg[i])
                    /\ arg[i].json[1].text = arg[i].params.is_text

\* C38 happens: a create_dataset sent its body, a second one raised on a
\* missing key after it had written into the template, and a third one with
\* other parameters sent its body.
C38_Witness ==
    /\ fn = "curation"
    /\ Len(arg) = 3
    /\ \A i \in 1..3 : arg[i].call = "create_dataset"
    /\ arg[1].json # <<>>
    /\ arg[2].json = <<>>
    /\ arg[2].params.sku = NoKey
    /\ arg[3].json # <<>>
    /\ arg[3].params.dataset_title # arg[2].params.dataset_title
    /\ arg[3].params.dataset_title # arg[1].params.dataset_title

\* C39: a step of a task's runner leaves the row of every other task as it
\* was, also when the tasks name the same dataset and version; and a runner
\* returns from a poll only if the row of its own task holds cancelled.
C39_TaskIsolation ==
    [][fn = "tasks" =>
          \A k \in DOMAIN TaskIds :
              result'[k] # result[k]
                 => /\ \A j \in DOMAIN TaskIds \ {k} : arg'[j] = arg[j]
                    /\ result'[k].pc = "stopped" => arg[k].status = "cancelled"]_vars

\* C39 happens: two tasks for the same dataset and version; the first was
\* cancelled and its runner has stopped at a poll, the second has polled
\* twice and is completed.
C39_Witness ==
    /\ fn = "tasks"
    /\ arg[1].dataset_id = arg[2].dataset_id
    /\ arg[1].version_name = arg[2].version_name
    /\ result[1].pc = "stopped"
    /\ arg[1].status = "cancelled"
    /\ result[2] = [pc |-> "done", polls |-> 2]
    /\ arg[2].status = "completed"

\* C40 as stated: on the same parameters and the same answers of the
\* collaborators, without a cancellation, run_task and execute_task end in
\* the same terminal status and make the same upload requests in the same
\* order.
C40_OrchestratorsAgree ==
    fn = "orchestrators"
        => /\ result.execute_task.status = result.run_task.status
           /\ result.execute_task.uploads = result.run_task.uploads

====
